---- MODULE Spec2Model ----
(***************************************************************************)
(* Zendesk / Twilio webhook glue service: the three webhook handlers, the  *)
(* analysis and classification orchestration, the Zendesk and Twilio       *)
(* clients, and the WhatsApp text heuristics.                               *)
(*                                                                         *)
(* Text is modelled as a sequence of one-character strings, so that        *)
(* len(), slicing, strip(), lower(), substring tests and the anchored      *)
(* regular expressions of the source are computed, not assumed.            *)
(***************************************************************************)
EXTENDS Integers, Sequences, FiniteSets, TLC

(***************************************************************************)
(* Text primitives (Python str operations used by the source).             *)
(***************************************************************************)

UpperLetters ==
    <<"A","B","C","D","E","F","G","H","I","J","K","L","M","N","O","P","Q","R","S","T","U","V","W","X","Y","Z">>

LowerLetters ==
    <<"a","b","c","d","e","f","g","h","i","j","k","l","m","n","o","p","q","r","s","t","u","v","w","x","y","z">>

Digits ==
    <<"0","1","2","3","4","5","6","7","8","9">>

Range(s) ==
    { s[i] : i \in DOMAIN s }

\* str.lower() on one character
LowerChar(c) ==
    IF \E i \in DOMAIN UpperLetters : UpperLetters[i] = c
    THEN LowerLetters[CHOOSE i \in DOMAIN UpperLetters : UpperLetters[i] = c]
    ELSE c

\* str.lower()
Lower(s) ==
    [i \in DOMAIN s |-> LowerChar(s[i])]

\* characters str.strip() removes and the regex class \s matches
IsSpace(c) ==
    c \in {" ", "\t", "\n", "\r"}

\* the regex class \w
IsWordChar(c) ==
    c \in Range(UpperLetters) \cup Range(LowerLetters) \cup Range(Digits) \cup {"_"}

\* \D of re.sub(r'\D', '', s) keeps exactly the characters satisfying this
IsDigit(c) ==
    c \in Range(Digits)

\* str.strip()
Strip(s) ==
    LET keep == { i \in DOMAIN s : ~IsSpace(s[i]) }
    IN  IF keep = {} THEN <<>>
        ELSE LET first == CHOOSE i \in keep : \A j \in keep : i <= j
                 last  == CHOOSE i \in keep : \A j \in keep : j <= i
             IN  SubSeq(s, first, last)

\* s[:n]
Prefix(s, n) ==
    SubSeq(s, 1, IF Len(s) < n THEN Len(s) ELSE n)

\* str.startswith
StartsWith(s, p) ==
    Len(s) >= Len(p) /\ SubSeq(s, 1, Len(p)) = p

\* `p in s`
Contains(s, p) ==
    \E i \in 0..(Len(s) - Len(p)) : SubSeq(s, i + 1, i + Len(p)) = p

\* the regex assertion \b between s[n] and s[n+1]
WordBoundary(s, n) ==
    (n >= 1 /\ n <= Len(s) /\ IsWordChar(s[n])) # (n + 1 <= Len(s) /\ IsWordChar(s[n + 1]))

\* re.match(r'^w\b', s)
MatchWord(s, w) ==
    StartsWith(s, w) /\ WordBoundary(s, Len(w))

\* re.match(r'^a\s*b\b', s)
MatchTwoWords(s, a, b) ==
    /\ StartsWith(s, a)
    /\ \E k \in 0..(Len(s) - Len(a)) :
          /\ \A j \in 1..k : IsSpace(s[Len(a) + j])
          /\ StartsWith(SubSeq(s, Len(a) + k + 1, Len(s)), b)
          /\ WordBoundary(s, Len(a) + k + Len(b))

\* str(n) for a natural number
RECURSIVE IntToStr(_)
IntToStr(n) ==
    IF n < 10 THEN <<Digits[n + 1]>>
    ELSE IntToStr(n \div 10) \o <<Digits[(n % 10) + 1]>>

(***************************************************************************)
(* String literals of src/services/twilio.py and src/app/routers/twilio.py *)
(***************************************************************************)

simple_generic_words ==
    { <<"h","i">>,
      <<"h","e","l","l","o">>,
      <<"h","e","y">>,
      <<"t","h","a","n","k","s">>,
      <<"t","h","a","n","k">>,
      <<"o","k">>,
      <<"o","k","a","y">>,
      <<"y","e","s">>,
      <<"n","o">>,
      <<"h","e","l","p">>,
      <<"s","u","p","p","o","r","t">> }

day_parts ==
    { <<"m","o","r","n","i","n","g">>,
      <<"a","f","t","e","r","n","o","o","n">>,
      <<"e","v","e","n","i","n","g">> }

issue_keywords ==
    { <<"p","r","o","b","l","e","m">>,
      <<"i","s","s","u","e">>,
      <<"e","r","r","o","r">>,
      <<"b","u","g">>,
      <<"b","r","o","k","e","n">>,
      <<"n","o","t"," ","w","o","r","k","i","n","g">>,
      <<"c","a","n","'","t">>,
      <<"c","a","n","n","o","t">>,
      <<"f","a","i","l","e","d">>,
      <<"f","a","i","l","u","r","e">>,
      <<"t","r","o","u","b","l","e">>,
      <<"d","i","f","f","i","c","u","l","t","y">>,
      <<"q","u","e","s","t","i","o","n">>,
      <<"i","n","q","u","i","r","y">>,
      <<"r","e","q","u","e","s","t">>,
      <<"n","e","e","d">>,
      <<"w","a","n","t">>,
      <<"l","o","o","k","i","n","g"," ","f","o","r">>,
      <<"s","e","a","r","c","h","i","n","g"," ","f","o","r">>,
      <<"t","r","y","i","n","g"," ","t","o">>,
      <<"a","t","t","e","m","p","t","i","n","g"," ","t","o">> }

urgent_keywords ==
    { <<"u","r","g","e","n","t">>,
      <<"e","m","e","r","g","e","n","c","y">>,
      <<"c","r","i","t","i","c","a","l">>,
      <<"b","r","o","k","e","n">>,
      <<"d","o","w","n">>,
      <<"o","u","t","a","g","e">> }

high_keywords ==
    { <<"i","m","p","o","r","t","a","n","t">>,
      <<"i","s","s","u","e">>,
      <<"p","r","o","b","l","e","m">>,
      <<"e","r","r","o","r">>,
      <<"f","a","i","l","e","d">>,
      <<"n","o","t"," ","w","o","r","k","i","n","g">> }

STR_good ==
    <<"g","o","o","d">>

STR_thank ==
    <<"t","h","a","n","k">>

STR_you ==
    <<"y","o","u">>

MSG_EMPTY ==
    <<"M","e","s","s","a","g","e"," ","i","s"," ","e","m","p","t","y">>

MSG_MORE_DETAILS ==
    <<"P","l","e","a","s","e"," ","p","r","o","v","i","d","e"," ","m","o","r","e"," ","d","e","t","a","i","l","s"," ","a","b","o","u","t"," ","y","o","u","r"," ","i","s","s","u","e",".">>

MSG_DESCRIBE ==
    <<"P","l","e","a","s","e"," ","d","e","s","c","r","i","b","e"," ","y","o","u","r"," ","i","s","s","u","e"," ","o","r"," ","r","e","q","u","e","s","t","."," ","F","o","r"," ","e","x","a","m","p","l","e",":"," ","'","I"," ","c","a","n","'","t"," ","l","o","g"," ","i","n","t","o"," ","m","y"," ","a","c","c","o","u","n","t","'"," ","o","r"," ","'","N","e","e","d"," ","h","e","l","p"," ","w","i","t","h"," ","b","i","l","l","i","n","g","'">>

MSG_VALID ==
    <<"C","o","n","t","e","n","t"," ","i","s"," ","v","a","l","i","d">>

MSG_SORRY ==
    <<"S","o","r","r","y",","," ","w","e"," ","c","o","u","l","d","n","'","t"," ","c","r","e","a","t","e"," ","y","o","u","r"," ","t","i","c","k","e","t"," ","r","i","g","h","t"," ","n","o","w","."," ","P","l","e","a","s","e"," ","t","r","y"," ","a","g","a","i","n"," ","l","a","t","e","r"," ","o","r"," ","c","o","n","t","a","c","t"," ","s","u","p","p","o","r","t"," ","d","i","r","e","c","t","l","y",".">>

STR_TicketHash ==
    <<"T","i","c","k","e","t"," ","#">>

STR_created ==
    <<" ","c","r","e","a","t","e","d",":"," ","'">>

STR_getback ==
    <<"'","."," ","W","e","'","l","l"," ","g","e","t"," ","b","a","c","k"," ","t","o"," ","y","o","u"," ","s","o","o","n",".">>

STR_ellipsis ==
    <<".",".",".">>

STR_fallback_subject ==
    <<"W","h","a","t","s","A","p","p"," ","S","u","p","p","o","r","t"," ","R","e","q","u","e","s","t">>

STR_default_subject ==
    <<"S","u","p","p","o","r","t"," ","R","e","q","u","e","s","t">>

STR_whatsapp_prefix ==
    <<"w","h","a","t","s","a","p","p",":">>

STR_email_domain ==
    <<"@","w","h","a","t","s","a","p","p",".","z","e","n","d","e","s","k",".","c","o","m">>

STR_NA ==
    <<"N","/","A">>
STR_wa_user ==
    <<"W","h","a","t","s","A","p","p"," ","U","s","e","r"," ","(">>

STR_close_paren ==
    <<")">>

STR_created_ok ==
    <<" ","c","r","e","a","t","e","d"," ","s","u","c","c","e","s","s","f","u","l","l","y">>

MSG_CREATE_FAILED ==
    <<"F","a","i","l","e","d"," ","t","o"," ","c","r","e","a","t","e"," ","t","i","c","k","e","t","."," ","P","l","e","a","s","e"," ","t","r","y"," ","a","g","a","i","n"," ","l","a","t","e","r",".">>

MSG_DEFAULT_GUIDANCE ==
    <<"P","l","e","a","s","e"," ","p","r","o","v","i","d","e"," ","m","o","r","e"," ","d","e","t","a","i","l","s"," ","a","b","o","u","t"," ","y","o","u","r"," ","i","s","s","u","e",".">>

(***************************************************************************)
(* TwilioService text heuristics (src/services/twilio.py)                  *)
(***************************************************************************)

MIN_LENGTH ==
    10

MIN_LENGTH_NO_KEYWORD ==
    20

SUBJECT_MAX ==
    50

SUBJECT_CUT ==
    47

TEMPLATE_VAR_MAX ==
    50

\* generic_patterns, matched with re.match against the lower-cased text
MatchesGenericPattern(s) ==
    \/ \E w \in simple_generic_words : MatchWord(s, w)
    \/ \E d \in day_parts : MatchTwoWords(s, STR_good, d)
    \/ MatchTwoWords(s, STR_thank, STR_you)

\* variant: the minimum-length rule is missing
validate_whatsapp_content_NoMinimum(message_body) ==
    LET clean_message == Strip(message_body)
        has_issue_keywords ==
            \E keyword \in issue_keywords : Contains(Lower(clean_message), keyword)
    IN  IF message_body = <<>> \/ clean_message = <<>>
        THEN [is_valid |-> FALSE, message |-> MSG_EMPTY]
        ELSE IF MatchesGenericPattern(Lower(clean_message))
        THEN [is_valid |-> FALSE, message |-> MSG_MORE_DETAILS]
        ELSE IF ~has_issue_keywords /\ Len(clean_message) < MIN_LENGTH_NO_KEYWORD
        THEN [is_valid |-> FALSE, message |-> MSG_DESCRIBE]
        ELSE [is_valid |-> TRUE, message |-> MSG_VALID]

\* variant: bodies under 20 characters are rejected even with an issue keyword
validate_whatsapp_content_LongOnly(message_body) ==
    LET clean_message == Strip(message_body)
    IN  IF message_body = <<>> \/ clean_message = <<>>
        THEN [is_valid |-> FALSE, message |-> MSG_EMPTY]
        ELSE IF Len(clean_message) < MIN_LENGTH
        THEN [is_valid |-> FALSE, message |-> MSG_MORE_DETAILS]
        ELSE IF MatchesGenericPattern(Lower(clean_message))
        THEN [is_valid |-> FALSE, message |-> MSG_MORE_DETAILS]
        ELSE IF Len(clean_message) < MIN_LENGTH_NO_KEYWORD
        THEN [is_valid |-> FALSE, message |-> MSG_DESCRIBE]
        ELSE [is_valid |-> TRUE, message |-> MSG_VALID]

\* validate_whatsapp_content: (is_valid, reason_or_suggestion)
validate_whatsapp_content(message_body) ==
    LET clean_message == Strip(message_body)
        has_issue_keywords ==
            \E keyword \in issue_keywords : Contains(Lower(clean_message), keyword)
    IN  IF message_body = <<>> \/ clean_message = <<>>
        THEN [is_valid |-> FALSE, message |-> MSG_EMPTY]
        ELSE IF Len(clean_message) < MIN_LENGTH
        THEN [is_valid |-> FALSE, message |-> MSG_MORE_DETAILS]
        ELSE IF MatchesGenericPattern(Lower(clean_message))
        THEN [is_valid |-> FALSE, message |-> MSG_MORE_DETAILS]
        ELSE IF ~has_issue_keywords /\ Len(clean_message) < MIN_LENGTH_NO_KEYWORD
        THEN [is_valid |-> FALSE, message |-> MSG_DESCRIBE]
        ELSE [is_valid |-> TRUE, message |-> MSG_VALID]

\* message.split('.')[0]
FirstDotPart(message) ==
    LET dots == { i \in DOMAIN message : message[i] = "." }
    IN  IF dots = {} THEN message
        ELSE SubSeq(message, 1, (CHOOSE i \in dots : \A j \in dots : i <= j) - 1)

\* variant: the first 50 characters are kept before the ellipsis
generate_subject_Cut50(message) ==
    LET first_sentence == Strip(FirstDotPart(message))
        cut == IF Len(first_sentence) > SUBJECT_MAX
               THEN Prefix(first_sentence, SUBJECT_MAX) \o STR_ellipsis
               ELSE first_sentence
    IN  IF cut # <<>> THEN cut ELSE STR_fallback_subject

\* _generate_subject
generate_subject(message) ==
    LET first_sentence == Strip(FirstDotPart(message))
        cut == IF Len(first_sentence) > SUBJECT_MAX
               THEN Prefix(first_sentence, SUBJECT_CUT) \o STR_ellipsis
               ELSE first_sentence
    IN  IF cut # <<>> THEN cut ELSE STR_fallback_subject

\* variant: the high keywords are looked for first
determine_priority_HighFirst(message) ==
    LET message_lower == Lower(message)
    IN  IF \E keyword \in high_keywords : Contains(message_lower, keyword) THEN "high"
        ELSE IF \E keyword \in urgent_keywords : Contains(message_lower, keyword) THEN "urgent"
        ELSE "normal"

\* _determine_priority
determine_priority(message) ==
    LET message_lower == Lower(message)
    IN  IF \E keyword \in urgent_keywords : Contains(message_lower, keyword) THEN "urgent"
        ELSE IF \E keyword \in high_keywords : Contains(message_lower, keyword) THEN "high"
        ELSE "normal"

\* _prepare_content_variables; ticket_id is 0 when the caller passed None
prepare_content_variables(message, ticket_id) ==
    [ v1 |-> IF Len(message) > TEMPLATE_VAR_MAX
             THEN Prefix(message, TEMPLATE_VAR_MAX) \o STR_ellipsis
             ELSE message,
      v2 |-> IF ticket_id # 0 THEN IntToStr(ticket_id) ELSE STR_NA ]

\* re.sub(r'\D', '', phone_number)
RECURSIVE DigitsOnly(_)
DigitsOnly(s) ==
    IF s = <<>> THEN <<>>
    ELSE (IF IsDigit(Head(s)) THEN <<Head(s)>> ELSE <<>>) \o DigitsOnly(Tail(s))

\* _format_whatsapp_number
format_whatsapp_number(phone_number) ==
    LET digits_only == DigitsOnly(phone_number)
    IN  IF Len(digits_only) = 10
        THEN STR_whatsapp_prefix \o <<"+", "1">> \o digits_only
        ELSE IF Len(digits_only) = 11 /\ StartsWith(digits_only, <<"1">>)
        THEN STR_whatsapp_prefix \o <<"+">> \o digits_only
        ELSE IF StartsWith(digits_only, <<"1">>) /\ Len(digits_only) = 11
        THEN STR_whatsapp_prefix \o <<"+">> \o digits_only
        ELSE IF StartsWith(phone_number, <<"+">>)
        THEN STR_whatsapp_prefix \o phone_number
        ELSE STR_whatsapp_prefix \o <<"+">> \o digits_only

\* From.replace("whatsapp:", "") if From.startswith("whatsapp:") else From
RECURSIVE RemoveAll(_, _)
RemoveAll(s, p) ==
    IF s = <<>> THEN <<>>
    ELSE IF StartsWith(s, p) THEN RemoveAll(SubSeq(s, Len(p) + 1, Len(s)), p)
    ELSE <<Head(s)>> \o RemoveAll(Tail(s), p)

clean_number(number) ==
    IF StartsWith(number, STR_whatsapp_prefix) THEN RemoveAll(number, STR_whatsapp_prefix) ELSE number

(***************************************************************************)
(* State                                                                   *)
(***************************************************************************)

VARIABLES
    settings,   \* configuration read at construction of the service singletons
    handles,    \* lazily built vendor handles of the service singletons
    handler,    \* the operation in progress
    pc,         \* its position (the await it is suspended at)
    body,       \* request body of a Zendesk webhook delivery
    form,       \* form fields of a Twilio delivery, whether it carries a
                \* signature header and whether the validator accepts it
    loc,        \* local variables of the operation in progress
    calls,      \* outbound vendor requests issued by this delivery, in order
    inflight,   \* vendor requests issued and not yet answered
    replies,    \* vendor answers received by this delivery, in order
    response,   \* what the operation returned
    escaped     \* exception that left the operation uncaught

vars ==
    <<settings, handles, handler, pc, body, form, loc, calls, inflight, replies, response, escaped>>

(***************************************************************************)
(* Inputs and vendor outcomes                                              *)
(***************************************************************************)

\* longest raw comment list Zendesk returns
MaxComments ==
    2

Absent ==
    "<absent>"

JsonNull ==
    "<null>"

\* value of data.get("event", {}): missing key, a non-object, or an object
EventValues ==
    { [t |-> "absent", current |-> Absent], [t |-> "nondict", current |-> Absent] }
    \cup { [t |-> "dict", current |-> c] : c \in {Absent, "SOLVED", "OPEN", "solved"} }

\* value of the "detail" key
DetailValues ==
    { [t |-> "absent", status |-> Absent, id |-> Absent, subject |-> Absent],
      [t |-> "nondict", status |-> Absent, id |-> Absent, subject |-> Absent] }
    \cup { [t |-> "dict", status |-> s, id |-> i, subject |-> sj] :
             s \in {Absent, "SOLVED", "OPEN"},
             i \in {Absent, "", "42"},
             sj \in {Absent, "Login fails", JsonNull} }

NoEvent ==
    [t |-> "absent", current |-> Absent]

NoDetail ==
    [t |-> "absent", status |-> Absent, id |-> Absent, subject |-> Absent]

\* request bodies: bytes that are not UTF-8, UTF-8 text that is not JSON,
\* JSON that is not an object, and JSON objects
Bodies ==
    { [kind |-> k, event |-> NoEvent, detail |-> NoDetail] :
        k \in {"invalid_utf8", "text", "json_other"} }
    \cup { [kind |-> "json_object", event |-> e, detail |-> d] :
             e \in EventValues, d \in DetailValues }

NoBody ==
    [kind |-> "none", event |-> NoEvent, detail |-> NoDetail]

Categories ==
    {"engineering", "billing", ""}

HFOutcomes ==
    { [kind |-> "http_200", category |-> c, has_scores |-> s] :
        c \in Categories, s \in BOOLEAN }
    \cup { [kind |-> k, category |-> "", has_scores |-> FALSE] :
             k \in {"http_error", "exception"} }

ZendeskOutcomes ==
    { [kind |-> k] : k \in {"http_200", "http_error", "exception"} }

NoResult ==
    [status |-> "none"]

LocInit ==
    [ data_type |-> "none",
      ticket_id |-> "",
      huggingface_response |-> NoResult,
      zendesk_update_result |-> NoResult,
      summary_update_result |-> NoResult,
      ticket_public_comments |-> NoResult,
      llm_response |-> NoResult,
      analysis_update_result |-> NoResult,
      validation_result |-> FALSE,
      ticket_result |-> NoResult,
      response_message |-> <<>>,
      whatsapp_response |-> NoResult ]

NoForm ==
    [From |-> <<>>, Body |-> <<>>, signature |-> FALSE, signature_accepted |-> FALSE]

NoResponse ==
    [type |-> "none", status |-> "none", message |-> "none"]

\* every combination of present and missing settings
AllSettings ==
    [zendesk_domain : BOOLEAN, zendesk_email : BOOLEAN, zendesk_api_key : BOOLEAN,
     twilio : BOOLEAN, content_sid : BOOLEAN, webhook_secret : BOOLEAN]

\* the deployments the webhook handlers are run in: the Zendesk domain and
\* e-mail are set and the API key is set or missing (the handlers tell a
\* complete Zendesk configuration from an incomplete one only)
DeployedSettings ==
    { s \in AllSettings : s.zendesk_domain /\ s.zendesk_email }

Init ==
    /\ settings \in DeployedSettings
    /\ handles = [azure_client |-> "None", twilio_client |-> "None",
                  twilio_validator |-> "None", zendesk_headers |-> "None"]
    /\ handler = "idle"
    /\ pc = "idle"
    /\ body = NoBody
    /\ form = NoForm
    /\ loc = LocInit
    /\ calls = <<>>
    /\ inflight = {}
    /\ replies = <<>>
    /\ response = NoResponse
    /\ escaped = "none"

(***************************************************************************)
(* Request utilities (src/app/utils.py)                                    *)
(***************************************************************************)

\* variant: one configured field is taken for a complete configuration
ZendeskConfigured_AnyField ==
    settings.zendesk_domain \/ settings.zendesk_email \/ settings.zendesk_api_key

\* all([zendesk_domain, zendesk_email, zendesk_api_token])
ZendeskConfigured ==
    settings.zendesk_domain /\ settings.zendesk_email /\ settings.zendesk_api_key

\* Python truth value of a string
Truthy(s) ==
    s # ""

\* dict.get(key, default) on a field that may be missing
Get(value, default) ==
    IF value = Absent THEN default ELSE value

\* parse_request_body: json.loads(body), and body.decode('utf-8') on
\* JSONDecodeError; bytes that are not UTF-8 make either raise UnicodeDecodeError
parse_request_body(b) ==
    IF b.kind = "invalid_utf8" THEN [raises |-> "UnicodeDecodeError", data_type |-> "none"]
    ELSE IF b.kind = "text" THEN [raises |-> "none", data_type |-> "TEXT"]
    ELSE [raises |-> "none", data_type |-> "JSON"]

\* isinstance(data, dict)
IsDict(b) ==
    b.kind = "json_object"

\* variant: the id defaults to 'unknown', as in the logging calls of
\* ticket_status_changed_webhook
extract_ticket_data_UnknownDefault(data) ==
    IF data.detail.t = "absent"
    THEN [raises |-> "none", subject |-> "", ticket_id |-> "unknown"]
    ELSE IF data.detail.t = "nondict"
    THEN [raises |-> "AttributeError", subject |-> "", ticket_id |-> ""]
    ELSE IF data.detail.subject = JsonNull
    THEN [raises |-> "TypeError", subject |-> "", ticket_id |-> ""]
    ELSE [ raises |-> "none",
           subject |-> Get(data.detail.subject, ""),
           ticket_id |-> Get(data.detail.id, "unknown") ]

\* extract_ticket_data: (subject, description, ticket_id) of a JSON object;
\* subject[:50] raises TypeError on a null subject, detail.get raises
\* AttributeError when detail is no object
extract_ticket_data(data) ==
    IF data.detail.t = "absent"
    THEN [raises |-> "none", subject |-> "", ticket_id |-> ""]
    ELSE IF data.detail.t = "nondict"
    THEN [raises |-> "AttributeError", subject |-> "", ticket_id |-> ""]
    ELSE IF data.detail.subject = JsonNull
    THEN [raises |-> "TypeError", subject |-> "", ticket_id |-> ""]
    ELSE [ raises |-> "none",
           subject |-> Get(data.detail.subject, ""),
           ticket_id |-> Get(data.detail.id, "") ]

\* create_error_response / the handlers' except blocks
ErrorEnvelope(message) ==
    [type |-> "json", status |-> "error", message |-> message]

\* create_success_response / the handlers' success returns
SuccessEnvelope(message) ==
    [type |-> "json", status |-> "success", message |-> message]

\* variant: `except json.JSONDecodeError` instead of `except Exception`
HandlerCatches_JsonOnly(exc) ==
    exc = "JSONDecodeError"

\* `except Exception` around each webhook handler body
HandlerCatches(exc) ==
    TRUE

\* the operation returns `resp` with locals `l`; `waiting` are the vendor
\* requests still unanswered
Return(resp, l, waiting) ==
    /\ pc' = "done"
    /\ response' = resp
    /\ loc' = l
    /\ inflight' = waiting
    /\ escaped' = "none"
    /\ calls' = calls

\* exception `exc` is raised in the handler body with locals `l`
Raise(exc, l, waiting) ==
    IF HandlerCatches(exc)
    THEN Return(ErrorEnvelope(exc), l, waiting)
    ELSE /\ pc' = "done"
         /\ response' = NoResponse
         /\ loc' = l
         /\ inflight' = waiting
         /\ escaped' = exc
         /\ calls' = calls

\* the answer `o` of vendor `api` arrives
Answer(api, o) ==
    replies' = Append(replies, [api |-> api, result |-> o])

\* an outbound vendor request is put on the wire and awaited at `at`
Issue(call, at, l, waiting) ==
    /\ calls' = Append(calls, call)
    /\ inflight' = waiting \cup {call.api}
    /\ pc' = at
    /\ loc' = l
    /\ UNCHANGED <<response, escaped>>

(***************************************************************************)
(* POST /ticketCreatedWebhook (src/app/routers/webhook.py)                 *)
(***************************************************************************)

\* send_to_huggingface after the POST returned: result.get("scores", [])[0]
\* raises IndexError on an empty list, caught into an error result
send_to_huggingface(o) ==
    IF o.kind = "http_200" /\ o.has_scores
    THEN [status |-> "success", category |-> o.category]
    ELSE [status |-> "error", category |-> ""]

\* variant: the update is attempted whether or not there is a ticket id
ShouldUpdateTicket_Always(ticket_id) ==
    TRUE

\* `if ticket_id:` before the Zendesk update
ShouldUpdateTicket(ticket_id) ==
    Truthy(ticket_id)

\* update_zendesk_ticket_tags up to requests.put: the result it returns
\* without a request, or the body of the PUT it issues
update_zendesk_ticket_tags(huggingface_response, ticket_id) ==
    IF huggingface_response.status # "success"
    THEN [put |-> FALSE,
          result |-> [ status |-> "error", message |-> "Invalid HuggingFace response",
                       huggingface_response |-> huggingface_response ]]
    ELSE IF ~ZendeskConfigured
    THEN [put |-> FALSE, result |-> [status |-> "error", message |-> "Missing Zendesk configuration"]]
    ELSE [put |-> TRUE,
          result |-> [status |-> "none", message |-> "none"],
          request |-> [api |-> "zendesk", method |-> "PUT", ticket_id |-> ticket_id,
                       tags |-> <<[prefix |-> "auto_categorized_", category |-> huggingface_response.category]>>,
                       comment_public |-> FALSE]]

\* result of a ticket update once requests.put returned or raised
ZendeskPutResult(outcome) ==
    IF outcome.kind = "http_200"
    THEN [status |-> "success", message |-> "updated successfully"]
    ELSE IF outcome.kind = "http_error"
    THEN [status |-> "error", message |-> "Failed to update Zendesk ticket"]
    ELSE [status |-> "error", message |-> "Exception occurred while updating ticket"]

\* variant: a failed step is surfaced as the envelope's status
CreatedEnvelopeStatus_FromSteps(huggingface_response, zendesk_update_result) ==
    IF huggingface_response.status = "error" \/ zendesk_update_result.status = "error"
    THEN "error"
    ELSE "success"

\* status of the envelope ticket_created_webhook returns after its steps ran
CreatedEnvelopeStatus(huggingface_response, zendesk_update_result) ==
    "success"

CreatedEnvelope(l) ==
    [ type |-> "json",
      status |-> CreatedEnvelopeStatus(l.huggingface_response, l.zendesk_update_result),
      message |-> "Webhook logged successfully" ]

ReceiveTicketCreated ==
    /\ pc = "idle"
    /\ \E b \in Bodies : body' = b
    /\ handler' = "created"
    /\ pc' = "read_body"
    /\ UNCHANGED <<settings, handles, form, loc, calls, inflight, replies, response, escaped>>

\* body parsing, field extraction, template rendering and the POST to the
\* classification backend
CreatedClassify ==
    /\ handler = "created" /\ pc = "read_body"
    /\ LET parsed == parse_request_body(body)
           fields == IF parsed.data_type = "JSON" /\ IsDict(body)
                     THEN extract_ticket_data(body)
                     ELSE [raises |-> "none", subject |-> "", ticket_id |-> ""]
           l      == [loc EXCEPT !.data_type = parsed.data_type, !.ticket_id = fields.ticket_id]
       IN  IF parsed.raises # "none" THEN Raise(parsed.raises, loc, {})
           ELSE IF fields.raises # "none" THEN Raise(fields.raises, l, {})
           ELSE \E template_found \in BOOLEAN :
                   IF ~template_found THEN Raise("TemplateNotFound", l, {})
                   ELSE Issue([api |-> "huggingface", method |-> "POST"], "await_huggingface", l, {})
    /\ UNCHANGED <<settings, handles, handler, body, form, replies>>

\* the classification call returned; the Zendesk write follows if there is
\* a ticket id
CreatedClassified ==
    /\ handler = "created" /\ pc = "await_huggingface"
    /\ \E o \in HFOutcomes :
         /\ Answer("huggingface", o)
         /\ LET hf      == send_to_huggingface(o)
                l       == [loc EXCEPT !.huggingface_response = hf]
                waiting == inflight \ {"huggingface"}
                upd     == update_zendesk_ticket_tags(hf, loc.ticket_id)
            IN  IF ShouldUpdateTicket(loc.ticket_id)
                THEN IF upd.put
                     THEN Issue(upd.request, "await_zendesk_put", l, waiting)
                     ELSE LET l2 == [l EXCEPT !.zendesk_update_result = upd.result]
                          IN  Return(CreatedEnvelope(l2), l2, waiting)
                ELSE Return(CreatedEnvelope(l), l, waiting)
    /\ UNCHANGED <<settings, handles, handler, body, form>>

\* variant: a PUT that did not answer 200 is issued again
CreatedUpdated_Retry ==
    /\ handler = "created" /\ pc = "await_zendesk_put"
    /\ \E o \in ZendeskOutcomes :
         /\ Answer("zendesk", o)
         /\ LET l == [loc EXCEPT !.zendesk_update_result = ZendeskPutResult(o)]
            IN  IF o.kind = "http_200"
                THEN Return(CreatedEnvelope(l), l, inflight \ {"zendesk"})
                ELSE Issue(calls[Len(calls)], "await_zendesk_put", l, inflight \ {"zendesk"})
    /\ UNCHANGED <<settings, handles, handler, body, form>>

\* the Zendesk PUT returned
CreatedUpdated ==
    /\ handler = "created" /\ pc = "await_zendesk_put"
    /\ \E o \in ZendeskOutcomes :
         /\ Answer("zendesk", o)
         /\ LET l == [loc EXCEPT !.zendesk_update_result = ZendeskPutResult(o)]
            IN  Return(CreatedEnvelope(l), l, inflight \ {"zendesk"})
    /\ UNCHANGED <<settings, handles, handler, body, form>>

(***************************************************************************)
(* POST /ticketStatusChangedWebhook (src/app/routers/webhook.py)           *)
(***************************************************************************)

\* variant: `or` in place of `and`
IsSolved_Either(current_status, ticket_status) ==
    current_status = "SOLVED" \/ ticket_status = "SOLVED"

\* `current_status == "SOLVED" and ticket_status == "SOLVED"`
IsSolved(current_status, ticket_status) ==
    current_status = "SOLVED" /\ ticket_status = "SOLVED"

\* result of the comment fetch once requests.get returned or raised
CommentsFetchResult(outcome) ==
    IF outcome.kind = "http_200"
    THEN [status |-> "success", message |-> "Successfully fetched comments"]
    ELSE IF outcome.kind = "http_error"
    THEN [status |-> "error", message |-> "Failed to fetch comments"]
    ELSE [status |-> "error", message |-> "Exception occurred while fetching comments"]

ReceiveStatusChanged ==
    /\ pc = "idle"
    /\ \E b \in Bodies : body' = b
    /\ handler' = "status"
    /\ pc' = "read_body"
    /\ UNCHANGED <<settings, handles, form, loc, calls, inflight, replies, response, escaped>>

\* body parsing, the SOLVED test and, on a match with a ticket id, the
\* comment fetch of extract_ticket_comments
StatusProcess ==
    /\ handler = "status" /\ pc = "read_body"
    /\ LET parsed == parse_request_body(body)
           current_status == Get(body.event.current, "")
           ticket_status  == Get(body.detail.status, "")
           ticket_id      == Get(body.detail.id, "")
           l == [loc EXCEPT !.data_type = parsed.data_type, !.ticket_id = ticket_id]
       IN  IF parsed.raises # "none" THEN Raise(parsed.raises, loc, {})
           ELSE IF ~(parsed.data_type = "JSON" /\ IsDict(body))
           THEN Return(ErrorEnvelope("Invalid data format"),
                       [loc EXCEPT !.data_type = parsed.data_type], {})
           ELSE IF body.event.t = "nondict" \/ body.detail.t = "nondict"
           THEN Raise("AttributeError", [loc EXCEPT !.data_type = parsed.data_type], {})
           ELSE IF IsSolved(current_status, ticket_status)
           THEN IF Truthy(ticket_id)
                THEN IF ~ZendeskConfigured
                     THEN Return(SuccessEnvelope("Ticket status changed to SOLVED"),
                                 [l EXCEPT !.summary_update_result =
                                      [status |-> "error", message |-> "Missing Zendesk configuration"]],
                                 {})
                     ELSE Issue([api |-> "zendesk", method |-> "GET", ticket_id |-> ticket_id],
                                "await_zendesk_get", l, {})
                ELSE Return(SuccessEnvelope("Ticket status changed to SOLVED"), l, {})
           ELSE Return(SuccessEnvelope("Ticket status changed but not to SOLVED"), l, {})
    /\ UNCHANGED <<settings, handles, handler, body, form, replies>>

\* the comment fetch returned; the handler acknowledges
StatusCommentsFetched ==
    /\ handler = "status" /\ pc = "await_zendesk_get"
    /\ \E o \in ZendeskOutcomes :
         /\ Answer("zendesk", o)
         /\ Return(SuccessEnvelope("Ticket status changed to SOLVED"),
                   [loc EXCEPT !.summary_update_result = CommentsFetchResult(o)],
                   inflight \ {"zendesk"})
    /\ UNCHANGED <<settings, handles, handler, body, form>>

(***************************************************************************)
(* ZendeskService and AzureOpenAIService (src/services)                    *)
(***************************************************************************)

\* raw comments of a ticket as Zendesk returns them
RawComments ==
    [ id : {1}, public : BOOLEAN, plain_body : {"c1", "c2"},
      created_at : {"t1"}, author_id : {"a1"} ]

RECURSIVE SeqsUpTo(_, _)
SeqsUpTo(S, n) ==
    IF n = 0 THEN { <<>> }
    ELSE SeqsUpTo(S, n - 1) \cup { Append(s, x) : s \in SeqsUpTo(S, n - 1), x \in S }

CommentOutcomes ==
    { [kind |-> "http_200", comments |-> cs] : cs \in SeqsUpTo(RawComments, MaxComments) }
    \cup { [kind |-> k, comments |-> <<>>] : k \in {"http_error", "exception"} }

\* what response.choices[0].message.content can be
ContentKinds ==
    {"json_object", "json_empty_object", "json_array", "json_null", "not_json", "None"}

LLMOutcomes ==
    { [kind |-> "completion", content |-> c] : c \in ContentKinds }
    \cup { [kind |-> "exception", content |-> "None"] }

\* ZendeskService._get_headers: ValueError when the configuration is
\* incomplete, else the headers, built on first use
get_headers ==
    IF ~ZendeskConfigured
    THEN [raises |-> "ValueError", headers |-> handles.zendesk_headers]
    ELSE [raises |-> "none", headers |-> "built"]

\* the projection of one raw comment
PublicComment(comment) ==
    [ plain_body |-> comment.plain_body,
      created_at |-> comment.created_at,
      author_id |-> comment.author_id ]

\* variant: the `public` flag is not looked at
IsPublic_Any(comment) ==
    TRUE

\* `if comment.get("public", False)`
IsPublic(comment) ==
    comment.public

\* the list comprehension of ZendeskService.extract_ticket_comments
RECURSIVE public_comments(_)
public_comments(comments) ==
    IF comments = <<>> THEN <<>>
    ELSE (IF IsPublic(Head(comments)) THEN <<PublicComment(Head(comments))>> ELSE <<>>)
         \o public_comments(Tail(comments))

\* ZendeskService.extract_ticket_comments once requests.get returned or
\* raised: the list of public comments, or an error dict
extract_ticket_comments(o) ==
    IF o.kind = "http_200"
    THEN [status |-> "list", items |-> public_comments(o.comments)]
    ELSE [status |-> "error", items |-> <<>>]

\* variant: an empty list of public comments is analysed as well
HasComments_AnyList(ticket_public_comments) ==
    ticket_public_comments.status = "list"

\* isinstance(ticket_public_comments, list) and len(ticket_public_comments) > 0
HasComments(ticket_public_comments) ==
    ticket_public_comments.status = "list" /\ Len(ticket_public_comments.items) > 0

\* call_llm / analyze_ticket_comments once the completion returned or raised
call_llm(o) ==
    IF o.kind = "completion"
    THEN [status |-> "success", generated_content |-> o.content]
    ELSE [status |-> "error", generated_content |-> "None"]

\* json.loads(generated_content) and the truth value of what it returns
json_loads(content) ==
    IF content = "None" THEN [raises |-> "TypeError", truthy |-> FALSE, dict |-> FALSE]
    ELSE IF content = "not_json" THEN [raises |-> "JSONDecodeError", truthy |-> FALSE, dict |-> FALSE]
    ELSE [ raises |-> "none",
           truthy |-> content \in {"json_object", "json_array"},
           dict |-> content \in {"json_object", "json_empty_object"} ]

\* `except (json.JSONDecodeError, KeyError)` of process_ticket_analysis
AnalysisCatches(exc) ==
    exc \in {"JSONDecodeError", "KeyError"}

\* _format_analysis_for_comment: the report, or the error text when
\* analysis.get raises on a value that is no dict
format_analysis_for_comment(parsed) ==
    IF parsed.dict THEN "AI Analysis Report" ELSE "Error formatting analysis"

\* the (llm_response, analysis_update_result) tuple is returned
TupleReturned ==
    [type |-> "tuple", status |-> "returned", message |-> "none"]

(***************************************************************************)
(* process_ticket_analysis (src/app/services/webhook_services.py)          *)
(***************************************************************************)

\* the call, up to the GET of the ticket's comments
CallProcessTicketAnalysis ==
    /\ pc = "idle"
    /\ handler' = "analysis"
    /\ body' = NoBody
    /\ LET l == [LocInit EXCEPT !.ticket_id = "42"]
       IN  IF get_headers.raises # "none"
           THEN /\ pc' = "done"
                /\ response' = TupleReturned
                /\ loc' = [l EXCEPT !.ticket_public_comments = [status |-> "error", items |-> <<>>]]
                /\ calls' = <<>>
                /\ inflight' = {}
                /\ handles' = handles
           ELSE /\ pc' = "await_comments"
                /\ response' = NoResponse
                /\ loc' = l
                /\ calls' = <<[api |-> "zendesk", method |-> "GET", ticket_id |-> "42"]>>
                /\ inflight' = {"zendesk"}
                /\ handles' = [handles EXCEPT !.zendesk_headers = get_headers.headers]
    /\ escaped' = "none"
    /\ UNCHANGED <<settings, form, replies>>

\* the comments arrived; with at least one public comment the LLM is called
AnalysisCommentsFetched ==
    /\ handler = "analysis" /\ pc = "await_comments"
    /\ \E o \in CommentOutcomes :
         /\ Answer("zendesk", o)
         /\ LET l == [loc EXCEPT !.ticket_public_comments = extract_ticket_comments(o)]
                waiting == inflight \ {"zendesk"}
            IN  IF HasComments(l.ticket_public_comments)
                THEN \E client_built \in (IF handles.azure_client = "None" THEN BOOLEAN ELSE {TRUE}) :
                        IF client_built
                        THEN /\ handles' = [handles EXCEPT !.azure_client = "built"]
                             /\ Issue([api |-> "azure_openai", method |-> "POST"], "await_llm", l, waiting)
                        ELSE /\ handles' = handles
                             /\ Return(TupleReturned,
                                       [l EXCEPT !.llm_response =
                                            [status |-> "error", generated_content |-> "None"]],
                                       waiting)
                ELSE /\ handles' = handles
                     /\ Return(TupleReturned, l, waiting)
    /\ UNCHANGED <<settings, handler, body, form>>

\* the completion arrived; its content is parsed and, when there is an
\* analysis, posted to the ticket
AnalysisLlmReturned ==
    /\ handler = "analysis" /\ pc = "await_llm"
    /\ \E o \in LLMOutcomes :
         /\ Answer("azure_openai", o)
         /\ LET llm     == call_llm(o)
                l       == [loc EXCEPT !.llm_response = llm]
                waiting == inflight \ {"azure_openai"}
                parsed  == json_loads(llm.generated_content)
            IN  IF llm.status # "success" THEN Return(TupleReturned, l, waiting)
                ELSE IF parsed.raises # "none"
                THEN IF AnalysisCatches(parsed.raises)
                     THEN Return(TupleReturned, l, waiting)
                     ELSE /\ pc' = "done"
                          /\ response' = NoResponse
                          /\ loc' = l
                          /\ inflight' = waiting
                          /\ escaped' = parsed.raises
                          /\ calls' = calls
                ELSE IF ~parsed.truthy THEN Return(TupleReturned, l, waiting)
                ELSE IF get_headers.raises # "none"
                THEN Return(TupleReturned,
                            [l EXCEPT !.analysis_update_result =
                                 [status |-> "error", message |-> "Exception occurred while analyzed ticket"]],
                            waiting)
                ELSE Issue([api |-> "zendesk", method |-> "PUT", ticket_id |-> loc.ticket_id,
                            comment_body |-> format_analysis_for_comment(parsed),
                            comment_public |-> FALSE],
                           "await_update", l, waiting)
    /\ UNCHANGED <<settings, handles, handler, body, form>>

\* update_ticket returned: one PUT, its outcome reported and never retried
AnalysisUpdated ==
    /\ handler = "analysis" /\ pc = "await_update"
    /\ \E o \in ZendeskOutcomes :
         /\ Answer("zendesk", o)
         /\ Return(TupleReturned,
                   [loc EXCEPT !.analysis_update_result = ZendeskPutResult(o)],
                   inflight \ {"zendesk"})
    /\ UNCHANGED <<settings, handles, handler, body, form>>

\* WhatsApp message bodies (the Body form field)
MessageBodies ==
    { <<" "," "," ">>,
      <<"h","i">>,
      <<"h","e","l","l","o"," ","t","h","e","r","e"," ","f","r","i","e","n","d">>,
      <<"m","y"," ","a","p","p"," ","i","s"," ","s","l","o","w">>,
      <<"I"," ","c","a","n","'","t"," ","l","o","g"," ","i","n","t","o"," ","m","y"," ","a","c","c","o","u","n","t",","," ","e","r","r","o","r"," ","4","0","4">>,
      <<"L","o","g","i","n"," ","p","a","g","e"," ","b","r","o","k","e","n","."," ","P","l","e","a","s","e"," ","f","i","x"," ","i","t"," ","u","r","g","e","n","t","l","y","!">>,
      <<"T","h","e"," ","c","h","e","c","k","o","u","t"," ","p","a","g","e"," ","k","e","e","p","s"," ","t","i","m","i","n","g"," ","o","u","t"," ","w","h","e","n","e","v","e","r"," ","I"," ","t","r","y"," ","t","o"," ","p","a","y"," ","w","i","t","h"," ","m","y"," ","s","a","v","e","d"," ","c","a","r","d","."," ","T","h","a","n","k","s">>,
      <<" "," ","P","r","i","n","t","e","r"," ","i","s"," ","b","r","o","k","e","n"," ","a","g","a","i","n"," ","\n">> }

\* sender numbers (the From form field)
Senders ==
    { <<"w","h","a","t","s","a","p","p",":","+","1","5","5","5","1","2","3","4","5","6","7">>,
      <<"5","5","5","1","2","3","4","5","6","7">>,
      <<"+","4","4","7","9","1","1","1","2","3","4","5","6">>,
      <<"w","h","a","t","s","a","p","p",":","+","6","5","8","1","2","3","4","5","6","7">> }
(***************************************************************************)
(* POST /twilio/whatsapp (src/app/routers/twilio.py) and the ticket        *)
(* creation and reply of TwilioService (src/services/twilio.py)            *)
(***************************************************************************)

\* ticket numbers Zendesk assigns to created tickets
NewTicketIds ==
    {7, 12345}

CreateOutcomes ==
    { [kind |-> "created", ticket_id |-> n] : n \in NewTicketIds }
    \cup { [kind |-> k, ticket_id |-> 0] : k \in {"http_error", "exception"} }

TwilioOutcomes ==
    { [kind |-> k] : k \in {"sent", "exception"} }

\* validate_webhook_signature: skipped (True) without a webhook secret,
\* else the vendor validator's verdict
validate_webhook_signature(validator_accepts) ==
    IF ~settings.webhook_secret THEN TRUE ELSE validator_accepts

\* validate_twilio_request: False without a signature header; with one, the
\* un-awaited request.body() makes body.decode raise, which is caught into
\* False before the signature is looked at
validate_twilio_request(signature_present, validator_accepts) ==
    LET form_data_raises == TRUE
    IN  IF ~signature_present THEN FALSE
        ELSE IF form_data_raises THEN FALSE
        ELSE validate_webhook_signature(validator_accepts)

\* variant: the draft is tagged "whatsapp" only
TicketDraft_OneTag(phone_number, clean_message) ==
    [ subject |-> generate_subject(clean_message),
      description |-> clean_message,
      requester |-> [ name |-> STR_wa_user \o phone_number \o STR_close_paren,
                      email |-> phone_number \o STR_email_domain ],
      tags |-> <<"whatsapp">>,
      priority |-> determine_priority(clean_message),
      type |-> "incident" ]

\* ticket_data of create_ticket_from_whatsapp
TicketDraft(phone_number, clean_message) ==
    [ subject |-> generate_subject(clean_message),
      description |-> clean_message,
      requester |-> [ name |-> STR_wa_user \o phone_number \o STR_close_paren,
                      email |-> phone_number \o STR_email_domain ],
      tags |-> <<"whatsapp", "auto-created">>,
      priority |-> determine_priority(clean_message),
      type |-> "incident" ]

\* the dict create_ticket_from_whatsapp returns when validation fails
ValidationFailed(validation_message) ==
    [status |-> "validation_failed", message |-> validation_message, ticket_id |-> 0, subject |-> <<>>]

\* ZendeskService.create_ticket once the POST returned or raised
create_ticket(o) ==
    IF o.kind = "created"
    THEN [status |-> "success", ticket_id |-> o.ticket_id]
    ELSE [status |-> "error", ticket_id |-> 0]

\* the dict create_ticket_from_whatsapp returns after create_ticket
TicketResult(created, subject) ==
    IF created.status = "success"
    THEN [ status |-> "success",
           message |-> STR_TicketHash \o IntToStr(created.ticket_id) \o STR_created_ok,
           ticket_id |-> created.ticket_id,
           subject |-> subject ]
    ELSE [status |-> "error", message |-> MSG_CREATE_FAILED, ticket_id |-> 0, subject |-> <<>>]

\* variant: the fixed default guidance instead of the validator's message
ResponseMessage_DefaultGuidance(ticket_result) ==
    IF ticket_result.status = "success"
    THEN STR_TicketHash \o IntToStr(ticket_result.ticket_id) \o STR_created
         \o ticket_result.subject \o STR_getback
    ELSE IF ticket_result.status = "validation_failed"
    THEN MSG_DEFAULT_GUIDANCE
    ELSE MSG_SORRY

\* variant: the confirmation names the default subject, not the derived one
ResponseMessage_DefaultSubject(ticket_result) ==
    IF ticket_result.status = "success"
    THEN STR_TicketHash \o IntToStr(ticket_result.ticket_id) \o STR_created
         \o STR_default_subject \o STR_getback
    ELSE IF ticket_result.status = "validation_failed"
    THEN ticket_result.message
    ELSE MSG_SORRY

\* response_message of twilio_whatsapp_webhook
ResponseMessage(ticket_result) ==
    IF ticket_result.status = "success"
    THEN STR_TicketHash \o IntToStr(ticket_result.ticket_id) \o STR_created
         \o ticket_result.subject \o STR_getback
    ELSE IF ticket_result.status = "validation_failed"
    THEN ticket_result.message
    ELSE MSG_SORRY

\* the Twilio messages.create request of send_whatsapp_response
WhatsappRequest(to_number, message, ticket_id) ==
    IF settings.content_sid
    THEN [ api |-> "twilio", method |-> "POST", mode |-> "template",
           to |-> format_whatsapp_number(to_number),
           body |-> <<>>,
           content_variables |-> prepare_content_variables(message, ticket_id) ]
    ELSE [ api |-> "twilio", method |-> "POST", mode |-> "body",
           to |-> format_whatsapp_number(to_number),
           body |-> message,
           content_variables |-> [v1 |-> <<>>, v2 |-> <<>>] ]

EmptyTwiml ==
    [type |-> "twiml", status |-> "empty", message |-> "WhatsApp response sent separately"]

\* the handler's position after a step: where it waits, what it answered,
\* its locals and the vendor requests made so far
HandlerState(at, resp, l, sent, waiting) ==
    [pc |-> at, response |-> resp, loc |-> l, calls |-> sent, inflight |-> waiting]

\* the reply is composed and handed to send_whatsapp_response, which
\* raises ValueError inside its own try when Twilio is not configured; the
\* handler then answers with the same TwiML document
SendReply(frm, l, sent) ==
    LET message == ResponseMessage(l.ticket_result)
        l2      == [l EXCEPT !.response_message = message]
    IN  IF ~settings.twilio
        THEN HandlerState("done", EmptyTwiml,
                          [l2 EXCEPT !.whatsapp_response = [status |-> "error"]], sent, {})
        ELSE HandlerState("await_twilio", NoResponse, l2,
                          Append(sent, WhatsappRequest(clean_number(frm.From), message,
                                                       l.ticket_result.ticket_id)),
                          {"twilio"})

\* Twilio client handle after send_whatsapp_response called _get_client
TwilioClientAfterSend ==
    IF settings.twilio THEN "built" ELSE handles.twilio_client

\* variant: a delivery whose signature check failed is turned away
WhatsappReceived_Enforced(frm, l0, validation_result, sent) ==
    LET clean_from    == clean_number(frm.From)
        validation    == validate_whatsapp_content(frm.Body)
        clean_message == Strip(frm.Body)
        l == [l0 EXCEPT !.validation_result = validation_result]
    IN  IF ~validation_result
        THEN HandlerState("done", [type |-> "json", status |-> "error", message |-> "Forbidden"],
                          l, sent, {})
        ELSE IF ~validation.is_valid
        THEN SendReply(frm, [l EXCEPT !.ticket_result = ValidationFailed(validation.message)], sent)
        ELSE IF get_headers.raises # "none"
        THEN SendReply(frm, [l EXCEPT !.ticket_result =
                                 TicketResult([status |-> "error", ticket_id |-> 0], <<>>)], sent)
        ELSE HandlerState("await_create_ticket", NoResponse, l,
                          Append(sent, [api |-> "zendesk", method |-> "POST",
                                        ticket |-> TicketDraft(clean_from, clean_message)]),
                          {"zendesk"})

\* twilio_whatsapp_webhook up to its first await on a vendor: the signature
\* verdict is stored and logged only, the content is validated, and either
\* the reply (guidance or apology) is sent or the ticket creation requested
WhatsappReceived(frm, l0, validation_result, sent) ==
    LET clean_from    == clean_number(frm.From)
        validation    == validate_whatsapp_content(frm.Body)
        clean_message == Strip(frm.Body)
        l == [l0 EXCEPT !.validation_result = validation_result]
    IN  IF ~validation.is_valid
        THEN SendReply(frm, [l EXCEPT !.ticket_result = ValidationFailed(validation.message)], sent)
        ELSE IF get_headers.raises # "none"
        THEN SendReply(frm, [l EXCEPT !.ticket_result =
                                 TicketResult([status |-> "error", ticket_id |-> 0], <<>>)], sent)
        ELSE HandlerState("await_create_ticket", NoResponse, l,
                          Append(sent, [api |-> "zendesk", method |-> "POST",
                                        ticket |-> TicketDraft(clean_from, clean_message)]),
                          {"zendesk"})

\* create_ticket returned with outcome o: the confirmation or the apology
\* is sent
WhatsappCreated(frm, l, o, sent) ==
    LET subject == generate_subject(Strip(frm.Body))
    IN  SendReply(frm, [l EXCEPT !.ticket_result = TicketResult(create_ticket(o), subject)], sent)

\* variant: a failed send is attempted a second time
WhatsappAnswered_Resend(l, o, sent) ==
    IF o.kind = "sent" \/ Len(sent) >= 3
    THEN HandlerState("done", EmptyTwiml,
                      [l EXCEPT !.whatsapp_response =
                           [status |-> IF o.kind = "sent" THEN "success" ELSE "error"]],
                      sent, {})
    ELSE HandlerState("await_twilio", NoResponse, l, Append(sent, sent[Len(sent)]), {"twilio"})

\* messages.create returned or raised (outcome o): send_whatsapp_response
\* returns its result and the handler answers with the TwiML document
WhatsappAnswered(l, o, sent) ==
    HandlerState("done", EmptyTwiml,
                 [l EXCEPT !.whatsapp_response =
                      [status |-> IF o.kind = "sent" THEN "success" ELSE "error"]],
                 sent, {})

\* the handler moves to the state `s`
Becomes(s) ==
    /\ pc' = s.pc
    /\ response' = s.response
    /\ loc' = s.loc
    /\ calls' = s.calls
    /\ inflight' = s.inflight
    /\ UNCHANGED escaped

ReceiveWhatsapp ==
    /\ pc = "idle"
    /\ \E f \in Senders, b \in MessageBodies, s \in BOOLEAN, a \in BOOLEAN :
         /\ a => s
         /\ form' = [From |-> f, Body |-> b, signature |-> s, signature_accepted |-> a]
    /\ handler' = "whatsapp"
    /\ pc' = "received"
    /\ UNCHANGED <<settings, handles, body, loc, calls, inflight, replies, response, escaped>>

\* signature check (logged only), content validation, and either the reply
\* with the validator's guidance or the ticket creation request
WhatsappProcess ==
    /\ handler = "whatsapp" /\ pc = "received"
    /\ LET s == WhatsappReceived(form, loc,
                              validate_twilio_request(form.signature, form.signature_accepted),
                              calls)
       IN  /\ Becomes(s)
           /\ handles' = IF s.pc = "await_create_ticket"
                         THEN [handles EXCEPT !.zendesk_headers = get_headers.headers]
                         ELSE [handles EXCEPT !.twilio_client = TwilioClientAfterSend]
    /\ UNCHANGED <<settings, handler, body, form, replies>>

\* create_ticket returned; the confirmation or the apology is sent
WhatsappTicketCreated ==
    /\ handler = "whatsapp" /\ pc = "await_create_ticket"
    /\ \E o \in CreateOutcomes :
         /\ Answer("zendesk", o)
         /\ Becomes(WhatsappCreated(form, loc, o, calls))
    /\ handles' = [handles EXCEPT !.twilio_client = TwilioClientAfterSend]
    /\ UNCHANGED <<settings, handler, body, form>>

\* messages.create returned or raised; the handler answers with TwiML
WhatsappSent ==
    /\ handler = "whatsapp" /\ pc = "await_twilio"
    /\ \E o \in TwilioOutcomes :
         /\ Answer("twilio", o)
         /\ Becomes(WhatsappAnswered(loc, o, calls))
    /\ UNCHANGED <<settings, handles, handler, body, form>>

\* the response has been handed to the server; the next delivery can start
Complete ==
    /\ pc = "done"
    /\ pc' = "idle"
    /\ handler' = "idle"
    /\ body' = NoBody
    /\ form' = NoForm
    /\ loc' = LocInit
    /\ calls' = <<>>
    /\ inflight' = {}
    /\ replies' = <<>>
    /\ response' = NoResponse
    /\ escaped' = "none"
    /\ UNCHANGED <<settings, handles>>

Next ==
    \/ ReceiveTicketCreated
    \/ CreatedClassify
    \/ CreatedClassified
    \/ CreatedUpdated
    \/ ReceiveStatusChanged
    \/ StatusProcess
    \/ StatusCommentsFetched
    \/ CallProcessTicketAnalysis
    \/ AnalysisCommentsFetched
    \/ AnalysisLlmReturned
    \/ AnalysisUpdated
    \/ ReceiveWhatsapp
    \/ WhatsappProcess
    \/ WhatsappTicketCreated
    \/ WhatsappSent
    \/ Complete

Spec ==
    Init /\ [][Next]_vars

(***************************************************************************)
(* The text heuristics of TwilioService applied to message bodies          *)
(***************************************************************************)

\* longest run of filler characters in a message body
MaxFill ==
    12

\* how message bodies begin: greetings in several spellings, words that
\* only start like a greeting, and ordinary openings
TextWords ==
    { <<>>,
      <<"h","i">>,
      <<"H","e","l","l","o">>,
      <<"h","e","y">>,
      <<"g","o","o","d"," ","m","o","r","n","i","n","g">>,
      <<"g","o","o","d","e","v","e","n","i","n","g">>,
      <<"G","o","o","d"," "," ","a","f","t","e","r","n","o","o","n">>,
      <<"g","o","o","d"," ","d","a","y">>,
      <<"t","h","a","n","k","s">>,
      <<"t","h","a","n","k">>,
      <<"T","h","a","n","k"," ","y","o","u">>,
      <<"t","h","a","n","k","y","o","u">>,
      <<"o","k">>,
      <<"o","k","a","y">>,
      <<"y","e","s">>,
      <<"n","o">>,
      <<"h","e","l","p">>,
      <<"s","u","p","p","o","r","t">>,
      <<"h","i","s","t","o","r","y">>,
      <<"n","o","t","h","i","n","g">>,
      <<"h","e","l","p","f","u","l">>,
      <<"y","e","s","t","e","r","d","a","y">>,
      <<"m","y"," ","a","p","p"," ","i","s">>,
      <<"t","h","e"," ","c","h","e","c","k","o","u","t"," ","p","a","g","e">> }

\* what follows the opening word
TextSeps ==
    { <<>>, <<" ">>, <<",">>, <<"1">> }

\* how message bodies end: with or without an issue keyword
TextTails ==
    { <<>>,
      <<" ","e","r","r","o","r">>,
      <<" ","I"," ","n","e","e","d">> }

TextPads ==
    { <<>>, <<" ">> }

Filler(n) ==
    [i \in 1..n |-> "x"]

\* message bodies handed to validate_whatsapp_content
TextBodies ==
    { lead \o w \o sep \o Filler(n) \o tail \o trail :
        lead \in TextPads, w \in TextWords, sep \in TextSeps, n \in 0..MaxFill,
        tail \in TextTails, trail \in TextPads }

InitText ==
    /\ settings = [zendesk_domain |-> FALSE, zendesk_email |-> FALSE, zendesk_api_key |-> FALSE,
                   twilio |-> FALSE, content_sid |-> FALSE, webhook_secret |-> FALSE]
    /\ handles = [azure_client |-> "None", twilio_client |-> "None",
                  twilio_validator |-> "None", zendesk_headers |-> "None"]
    /\ handler = "text"
    /\ pc = "input"
    /\ body = NoBody
    /\ \E b \in TextBodies : form = [NoForm EXCEPT !.Body = b]
    /\ loc = LocInit
    /\ calls = <<>>
    /\ inflight = {}
    /\ replies = <<>>
    /\ response = NoResponse
    /\ escaped = "none"

\* validate_whatsapp_content(message_body) is called; loc holds the tuple
\* it returns
ValidateContent ==
    /\ handler = "text" /\ pc = "input"
    /\ pc' = "validated"
    /\ loc' = validate_whatsapp_content(form.Body)
    /\ UNCHANGED <<settings, handles, handler, body, form, calls, inflight, replies, response, escaped>>

NextText ==
    ValidateContent

SpecText ==
    InitText /\ [][NextText]_vars

(***************************************************************************)
(* The operations of ZendeskService (src/services/zendesk.py), each called *)
(* on its own                                                              *)
(***************************************************************************)

STR_auto_categorized ==
    <<"a","u","t","o","_","c","a","t","e","g","o","r","i","z","e","d","_">>

STR_categorized_as ==
    <<"T","i","c","k","e","t"," ","a","u","t","o","m","a","t","i","c","a","l","l","y"," ","c","a","t","e","g","o","r","i","z","e","d"," ","a","s"," ","'">>

STR_with ==
    <<"'"," ","w","i","t","h"," ">>

\* category values of a categorization response; the empty one is the
\* default of content.get("category", "")
CategoryLabels ==
    { <<"e","n","g","i","n","e","e","r","i","n","g">>,
      <<"c","u","s","t","o","m","e","r","_","s","u","p","p","o","r","t">>,
      <<"i","t","_","s","u","p","p","o","r","t">>,
      <<>> }

\* numeric confidence values in millionths (870000 is 0.87); none lies
\* halfway between two hundredths of a percent
ConfidenceMicros ==
    {0, 5000, 870000, 873456, 999999, 1000000}

\* what the "confidence" of a categorization response can be: a number, or
\* a string or null taken over from the LLM's JSON
Confidences ==
    { [kind |-> "number", micro |-> n] : n \in ConfidenceMicros }
    \cup { [kind |-> k, micro |-> 0] : k \in {"string", "null"} }

CategorizationResponses ==
    { [status |-> "success", category |-> c, confidence |-> f] :
        c \in CategoryLabels, f \in Confidences }
    \cup { [status |-> "error", message |-> m] :
             m \in { "Failed to parse categorization response",
                     "Exception occurred while calling Azure OpenAI" } }
    \cup { [status |-> Absent] }

\* variant: the percentage is written with one decimal
FormatPercent_OneDecimal(micro) ==
    LET tenths == (micro + 500) \div 1000
    IN  IntToStr(tenths \div 10) \o <<".", Digits[(tenths % 10) + 1], "%">>

\* f"{confidence:.2%}" for a number given in millionths
FormatPercent(micro) ==
    LET hundredths == (micro + 50) \div 100
    IN  IntToStr(hundredths \div 100)
        \o <<".", Digits[((hundredths % 100) \div 10) + 1], Digits[(hundredths % 10) + 1], "%">>

\* update_data of update_ticket_tags
TagUpdateData(category, micro) ==
    [ tags |-> << STR_auto_categorized \o category >>,
      comment |-> [ body |-> STR_categorized_as \o category \o STR_with
                             \o FormatPercent(micro) \o <<".">>,
                    public |-> FALSE ] ]

\* update_ticket up to requests.put: _get_headers raises inside the try
\* when the configuration is incomplete, else the PUT is issued
update_ticket(ticket_id, update_data) ==
    IF get_headers.raises # "none"
    THEN [ request |-> FALSE,
           result |-> [status |-> "error", message |-> "Exception occurred while updating ticket"] ]
    ELSE [ request |-> TRUE,
           call |-> [api |-> "zendesk", method |-> "PUT", ticket_id |-> ticket_id,
                     data |-> update_data] ]

\* variant: a response that is no success is tagged as 'unknown'
update_ticket_tags_Unchecked(categorization_response, ticket_id) ==
    IF categorization_response.status # "success"
    THEN update_ticket(ticket_id, TagUpdateData(<<"u","n","k","n","o","w","n">>, 0))
    ELSE IF categorization_response.confidence.kind # "number"
    THEN [ request |-> FALSE,
           result |-> [status |-> "error", message |-> "Exception occurred while updating ticket tags"] ]
    ELSE update_ticket(ticket_id,
                       TagUpdateData(categorization_response.category,
                                     categorization_response.confidence.micro))

\* update_ticket_tags up to requests.put: a response that is no success is
\* refused, a confidence that is no number makes the format raise inside
\* the try
update_ticket_tags(categorization_response, ticket_id) ==
    IF categorization_response.status # "success"
    THEN [ request |-> FALSE,
           result |-> [ status |-> "error", message |-> "Invalid Azure OpenAI response",
                        categorization_response |-> categorization_response ] ]
    ELSE IF categorization_response.confidence.kind # "number"
    THEN [ request |-> FALSE,
           result |-> [status |-> "error", message |-> "Exception occurred while updating ticket tags"] ]
    ELSE update_ticket(ticket_id,
                       TagUpdateData(categorization_response.category,
                                     categorization_response.confidence.micro))

\* update_ticket_with_analysis up to requests.put
update_ticket_with_analysis(analysis, ticket_id) ==
    update_ticket(ticket_id,
                  [comment |-> [body |-> format_analysis_for_comment(analysis), public |-> FALSE]])

\* extract_ticket_comments up to requests.get
fetch_ticket_comments(ticket_id) ==
    IF get_headers.raises # "none"
    THEN [ request |-> FALSE, result |-> [status |-> "error", items |-> <<>>] ]
    ELSE [ request |-> TRUE, call |-> [api |-> "zendesk", method |-> "GET", ticket_id |-> ticket_id] ]

ZendeskOperations ==
    {"update_ticket", "update_ticket_tags", "update_ticket_with_analysis", "extract_ticket_comments"}

\* the arguments each operation is called with, next to the ticket id
ZendeskArguments(operation) ==
    CASE operation = "update_ticket" -> { [status |-> "solved"], [priority |-> "high"] }
      [] operation = "update_ticket_tags" -> CategorizationResponses
      [] operation = "update_ticket_with_analysis" ->
             { json_loads("json_object"), json_loads("json_array") }
      [] operation = "extract_ticket_comments" -> { "none" }

\* the Zendesk domain, e-mail and API key are each set or missing
InitZendesk ==
    /\ settings \in { s \in AllSettings : ~s.twilio /\ ~s.content_sid /\ ~s.webhook_secret }
    /\ handles = [azure_client |-> "None", twilio_client |-> "None",
                  twilio_validator |-> "None", zendesk_headers |-> "None"]
    /\ handler \in ZendeskOperations
    /\ pc = "called"
    /\ body = NoBody
    /\ form = NoForm
    /\ \E argument \in ZendeskArguments(handler) :
         loc = [ticket_id |-> "42", argument |-> argument, result |-> NoResult]
    /\ calls = <<>>
    /\ inflight = {}
    /\ replies = <<>>
    /\ response = NoResponse
    /\ escaped = "none"

\* the operation runs up to its HTTP request, or returns an error result
\* without one
ZendeskOperationCalled ==
    /\ handler \in ZendeskOperations /\ pc = "called"
    /\ LET step == CASE handler = "update_ticket" -> update_ticket(loc.ticket_id, loc.argument)
                     [] handler = "update_ticket_tags" ->
                            update_ticket_tags(loc.argument, loc.ticket_id)
                     [] handler = "update_ticket_with_analysis" ->
                            update_ticket_with_analysis(loc.argument, loc.ticket_id)
                     [] handler = "extract_ticket_comments" -> fetch_ticket_comments(loc.ticket_id)
       IN  IF step.request
           THEN /\ calls' = Append(calls, step.call)
                /\ inflight' = {"zendesk"}
                /\ pc' = "await_zendesk"
                /\ loc' = loc
                /\ handles' = [handles EXCEPT !.zendesk_headers = get_headers.headers]
           ELSE /\ calls' = calls
                /\ inflight' = {}
                /\ pc' = "done"
                /\ loc' = [loc EXCEPT !.result = step.result]
                /\ handles' = handles
    /\ UNCHANGED <<settings, handler, body, form, replies, response, escaped>>

\* requests.put returned or raised
ZendeskUpdateAnswered ==
    /\ handler \in ZendeskOperations \ {"extract_ticket_comments"}
    /\ pc = "await_zendesk"
    /\ \E o \in ZendeskOutcomes :
         /\ Answer("zendesk", o)
         /\ loc' = [loc EXCEPT !.result = ZendeskPutResult(o)]
    /\ pc' = "done"
    /\ inflight' = {}
    /\ UNCHANGED <<settings, handles, handler, body, form, calls, response, escaped>>

\* requests.get returned or raised
ZendeskCommentsAnswered ==
    /\ handler = "extract_ticket_comments"
    /\ pc = "await_zendesk"
    /\ \E o \in CommentOutcomes :
         /\ Answer("zendesk", o)
         /\ loc' = [loc EXCEPT !.result = extract_ticket_comments(o)]
    /\ pc' = "done"
    /\ inflight' = {}
    /\ UNCHANGED <<settings, handles, handler, body, form, calls, response, escaped>>

NextZendesk ==
    \/ ZendeskOperationCalled
    \/ ZendeskUpdateAnswered
    \/ ZendeskCommentsAnswered

SpecZendesk ==
    InitZendesk /\ [][NextZendesk]_vars

(***************************************************************************)
(* The subject and priority heuristics of TwilioService                    *)
(* (src/services/twilio.py), each called on its own                        *)
(***************************************************************************)

\* longest run of filler characters in a message
MaxSentence ==
    52

\* how messages begin: with and without priority keywords, in several
\* spellings
DraftWords ==
    { <<>>,
      <<"U","R","G","E","N","T">>,
      <<"i","s"," ","b","r","o","k","e","n">>,
      <<"a","n"," ","i","s","s","u","e">>,
      <<"E","r","r","o","r">>,
      <<"n","o","t"," ","w","o","r","k","i","n","g">>,
      <<"d","o","w","n","l","o","a","d">>,
      <<"i","m","p","o","r","t","a","n","t"," ","o","u","t","a","g","e">>,
      <<"P","r","o","b","l","e","m",":"," ","c","r","i","t","i","c","a","l">>,
      <<"n","o","t","h","i","n","g">>,
      <<"e","m","e","r","g","e","n","c","y">>,
      <<"i","t"," ","f","a","i","l","e","d">> }

\* where the first sentence ends
DraftStops ==
    { <<>>, <<".">>, <<" ", ".">>, <<".", ".">> }

\* what follows the first sentence
DraftTails ==
    { <<>>, <<" ","P","l","e","a","s","e"," ","f","i","x"," ","i","t">>, <<" ","I","t"," ","i","s"," ","u","r","g","e","n","t","."," ","T","h","a","n","k","s">> }

\* messages handed to _generate_subject and _determine_priority
DraftMessages ==
    { lead \o w \o Filler(n) \o stop \o tail :
        lead \in TextPads, w \in DraftWords, n \in 0..MaxSentence,
        stop \in DraftStops, tail \in DraftTails }

InitDraft ==
    /\ settings = [zendesk_domain |-> FALSE, zendesk_email |-> FALSE, zendesk_api_key |-> FALSE,
                   twilio |-> FALSE, content_sid |-> FALSE, webhook_secret |-> FALSE]
    /\ handles = [azure_client |-> "None", twilio_client |-> "None",
                  twilio_validator |-> "None", zendesk_headers |-> "None"]
    /\ handler = "draft"
    /\ pc = "input"
    /\ body = NoBody
    /\ \E m \in DraftMessages : form = [NoForm EXCEPT !.Body = m]
    /\ loc = [subject |-> <<>>, priority |-> "none"]
    /\ calls = <<>>
    /\ inflight = {}
    /\ replies = <<>>
    /\ response = NoResponse
    /\ escaped = "none"

\* _generate_subject(message) is called
GenerateSubject ==
    /\ handler = "draft" /\ pc = "input"
    /\ pc' = "subject"
    /\ loc' = [loc EXCEPT !.subject = generate_subject(form.Body)]
    /\ UNCHANGED <<settings, handles, handler, body, form, calls, inflight, replies, response, escaped>>

\* _determine_priority(message) is called
DeterminePriority ==
    /\ handler = "draft" /\ pc = "input"
    /\ pc' = "priority"
    /\ loc' = [loc EXCEPT !.priority = determine_priority(form.Body)]
    /\ UNCHANGED <<settings, handles, handler, body, form, calls, inflight, replies, response, escaped>>

NextDraft ==
    \/ GenerateSubject
    \/ DeterminePriority

SpecDraft ==
    InitDraft /\ [][NextDraft]_vars

(***************************************************************************)
(* process_ticket_categorization (src/app/services/webhook_services.py)    *)
(* and AzureOpenAIService.categorize_ticket (src/services/azure_openai.py),*)
(* called on their own; the caller hands the classification result on to   *)
(* ZendeskService.update_ticket_tags                                       *)
(***************************************************************************)

\* the labels named in the prompt
candidate_labels ==
    { <<"h","u","m","a","n","_","r","e","s","o","u","r","c","e","s">>,
      <<"e","n","g","i","n","e","e","r","i","n","g">>,
      <<"i","t","_","s","u","p","p","o","r","t">>,
      <<"p","r","o","d","u","c","t">>,
      <<"d","e","s","i","g","n">>,
      <<"s","a","l","e","s">>,
      <<"m","a","r","k","e","t","i","n","g">>,
      <<"f","i","n","a","n","c","e">>,
      <<"l","e","g","a","l">>,
      <<"c","u","s","t","o","m","e","r","_","s","u","p","p","o","r","t">>,
      <<"o","p","e","r","a","t","i","o","n","s">>,
      <<"e","x","e","c","u","t","i","v","e">> }

\* category texts the model can answer with: listed labels, a label in
\* another spelling, a label that is not listed, and the empty text
AnswerCategories ==
    { <<"e","n","g","i","n","e","e","r","i","n","g">>,
      <<"c","u","s","t","o","m","e","r","_","s","u","p","p","o","r","t">>,
      <<"E","n","g","i","n","e","e","r","i","n","g">>,
      <<"b","i","l","l","i","n","g">>,
      <<>> }

\* the "confidence" member of the answer: missing, a number, a string
AnswerConfidences ==
    { [kind |-> "absent", micro |-> 0],
      [kind |-> "number", micro |-> 870000],
      [kind |-> "string", micro |-> 0] }

\* what response.choices[0].message.content can be for the categorization
\* prompt: no text, text that is no JSON, JSON that is no object, and JSON
\* objects with or without the requested members
CategorizeContents ==
    { [t |-> k, has_category |-> FALSE, category |-> <<>>,
       confidence |-> [kind |-> "absent", micro |-> 0]] :
        k \in {"None", "not_json", "json_array", "json_null"} }
    \cup { [t |-> "json_object", has_category |-> TRUE, category |-> c, confidence |-> f] :
             c \in AnswerCategories, f \in AnswerConfidences }
    \cup { [t |-> "json_object", has_category |-> FALSE, category |-> <<>>, confidence |-> f] :
             f \in AnswerConfidences }

CategorizeOutcomes ==
    { [kind |-> "completion", content |-> c] : c \in CategorizeContents }
    \cup { [kind |-> "exception", content |-> "None"] }

\* subject and description of the ticket
TicketTexts ==
    { "", "Login fails" }

\* the error result of call_llm
LlmError ==
    [status |-> "error", message |-> "Exception occurred while calling Azure OpenAI"]

\* json.loads(response["generated_content"]) and the content.get calls of
\* categorize_ticket: TypeError on None, JSONDecodeError on text that is no
\* JSON, AttributeError when the JSON value has no get
parse_categorization(content) ==
    IF content.t = "None"
    THEN [raises |-> "TypeError", category |-> <<>>, confidence |-> [kind |-> "absent", micro |-> 0]]
    ELSE IF content.t = "not_json"
    THEN [raises |-> "JSONDecodeError", category |-> <<>>, confidence |-> [kind |-> "absent", micro |-> 0]]
    ELSE IF content.t # "json_object"
    THEN [raises |-> "AttributeError", category |-> <<>>, confidence |-> [kind |-> "absent", micro |-> 0]]
    ELSE [ raises |-> "none",
           category |-> IF content.has_category THEN content.category ELSE <<>>,
           confidence |-> IF content.confidence.kind = "absent"
                          THEN [kind |-> "number", micro |-> 0]
                          ELSE content.confidence ]

\* variant: a category that is not among the candidate labels is reported
\* as a parse failure
categorize_ticket_Validated(o) ==
    LET llm    == call_llm(o)
        parsed == parse_categorization(llm.generated_content)
    IN  IF llm.status # "success" THEN [raises |-> "none", result |-> LlmError]
        ELSE IF parsed.raises = "JSONDecodeError"
        THEN [ raises |-> "none",
               result |-> [status |-> "error", message |-> "Failed to parse categorization response"] ]
        ELSE IF parsed.raises # "none" THEN [raises |-> parsed.raises, result |-> NoResult]
        ELSE IF parsed.category \notin candidate_labels
        THEN [ raises |-> "none",
               result |-> [status |-> "error", message |-> "Failed to parse categorization response"] ]
        ELSE [ raises |-> "none",
               result |-> [ status |-> "success", category |-> parsed.category,
                            confidence |-> parsed.confidence ] ]

\* categorize_ticket once the completion returned or raised (outcome o):
\* the dict it returns, or the exception that leaves it
categorize_ticket(o) ==
    LET llm    == call_llm(o)
        parsed == parse_categorization(llm.generated_content)
    IN  IF llm.status # "success" THEN [raises |-> "none", result |-> LlmError]
        ELSE IF parsed.raises = "JSONDecodeError"
        THEN [ raises |-> "none",
               result |-> [status |-> "error", message |-> "Failed to parse categorization response"] ]
        ELSE IF parsed.raises # "none" THEN [raises |-> parsed.raises, result |-> NoResult]
        ELSE [ raises |-> "none",
               result |-> [ status |-> "success", category |-> parsed.category,
                            confidence |-> parsed.confidence ] ]

\* variant: `except json.JSONDecodeError` around the categorize_ticket call
CategorizationCatches_JsonOnly(exc) ==
    exc = "JSONDecodeError"

\* `except Exception` of process_ticket_categorization
CategorizationCatches(exc) ==
    TRUE

\* the dict process_ticket_categorization returned
DictReturned ==
    [type |-> "dict", status |-> "returned", message |-> "none"]

InitCategorize ==
    /\ settings \in { s \in AllSettings :
                         /\ s.zendesk_domain /\ s.zendesk_email
                         /\ ~s.twilio /\ ~s.content_sid /\ ~s.webhook_secret }
    /\ handles = [azure_client |-> "None", twilio_client |-> "None",
                  twilio_validator |-> "None", zendesk_headers |-> "None"]
    /\ handler = "categorize"
    /\ pc = "called"
    /\ body = NoBody
    /\ form = NoForm
    /\ \E subject \in TicketTexts, description \in TicketTexts :
         loc = [ subject |-> subject, description |-> description, ticket_id |-> "42",
                 llm_calls |-> 0,
                 categorization_response |-> NoResult,
                 zendesk_update_result |-> NoResult ]
    /\ calls = <<>>
    /\ inflight = {}
    /\ replies = <<>>
    /\ response = NoResponse
    /\ escaped = "none"

\* process_ticket_categorization calls categorize_ticket, which calls
\* call_llm once: the client is built on first use (a failed construction
\* is caught by call_llm into its error result) and the completion is
\* requested
CallProcessTicketCategorization ==
    /\ handler = "categorize" /\ pc = "called"
    /\ \E client_built \in (IF handles.azure_client = "None" THEN BOOLEAN ELSE {TRUE}) :
         IF client_built
         THEN /\ handles' = [handles EXCEPT !.azure_client = "built"]
              /\ calls' = Append(calls, [api |-> "azure_openai", method |-> "POST"])
              /\ inflight' = {"azure_openai"}
              /\ pc' = "await_llm"
              /\ loc' = [loc EXCEPT !.llm_calls = @ + 1]
              /\ response' = response
         ELSE /\ handles' = handles
              /\ calls' = calls
              /\ inflight' = {}
              /\ pc' = "classified"
              /\ loc' = [loc EXCEPT !.llm_calls = @ + 1, !.categorization_response = LlmError]
              /\ response' = DictReturned
    /\ UNCHANGED <<settings, handler, body, form, replies, escaped>>

\* variant: text that is no JSON makes the completion be requested again
CategorizationLlmReturned_Retry ==
    /\ handler = "categorize" /\ pc = "await_llm"
    /\ \E o \in CategorizeOutcomes :
         /\ Answer("azure_openai", o)
         /\ LET outcome == categorize_ticket(o)
            IN  IF o.kind = "completion" /\ o.content.t = "not_json" /\ loc.llm_calls < 2
                THEN /\ calls' = Append(calls, [api |-> "azure_openai", method |-> "POST"])
                     /\ pc' = "await_llm"
                     /\ loc' = [loc EXCEPT !.llm_calls = @ + 1]
                     /\ UNCHANGED <<inflight, response, escaped>>
                ELSE /\ calls' = calls
                     /\ pc' = "classified"
                     /\ inflight' = {}
                     /\ loc' = [loc EXCEPT !.categorization_response =
                                     IF outcome.raises = "none" THEN outcome.result
                                     ELSE [status |-> "error", message |-> "Failed to categorize ticket"]]
                     /\ response' = DictReturned
                     /\ escaped' = "none"
    /\ UNCHANGED <<settings, handles, handler, body, form>>

\* the completion returned or raised: categorize_ticket returns its dict,
\* or raises and process_ticket_categorization turns the exception into an
\* error dict
CategorizationLlmReturned ==
    /\ handler = "categorize" /\ pc = "await_llm"
    /\ \E o \in CategorizeOutcomes :
         /\ Answer("azure_openai", o)
         /\ LET outcome == categorize_ticket(o)
            IN  IF outcome.raises = "none"
                THEN /\ loc' = [loc EXCEPT !.categorization_response = outcome.result]
                     /\ response' = DictReturned
                     /\ escaped' = "none"
                ELSE IF CategorizationCatches(outcome.raises)
                THEN /\ loc' = [loc EXCEPT !.categorization_response =
                                     [status |-> "error", message |-> "Failed to categorize ticket"]]
                     /\ response' = DictReturned
                     /\ escaped' = "none"
                ELSE /\ loc' = loc
                     /\ response' = NoResponse
                     /\ escaped' = outcome.raises
    /\ pc' = "classified"
    /\ inflight' = {}
    /\ UNCHANGED <<settings, handles, handler, body, form, calls>>

\* the caller hands the returned dict to update_ticket_tags
CategorizationTagged ==
    /\ handler = "categorize" /\ pc = "classified"
    /\ escaped = "none"
    /\ LET step == update_ticket_tags(loc.categorization_response, loc.ticket_id)
       IN  IF step.request
           THEN /\ calls' = Append(calls, step.call)
                /\ inflight' = {"zendesk"}
                /\ pc' = "await_zendesk_put"
                /\ loc' = loc
                /\ handles' = [handles EXCEPT !.zendesk_headers = get_headers.headers]
           ELSE /\ calls' = calls
                /\ inflight' = {}
                /\ pc' = "done"
                /\ loc' = [loc EXCEPT !.zendesk_update_result = step.result]
                /\ handles' = handles
    /\ UNCHANGED <<settings, handler, body, form, replies, response, escaped>>

\* requests.put of the tag update returned or raised
CategorizationTagAnswered ==
    /\ handler = "categorize" /\ pc = "await_zendesk_put"
    /\ \E o \in ZendeskOutcomes :
         /\ Answer("zendesk", o)
         /\ loc' = [loc EXCEPT !.zendesk_update_result = ZendeskPutResult(o)]
    /\ pc' = "done"
    /\ inflight' = {}
    /\ UNCHANGED <<settings, handles, handler, body, form, calls, response, escaped>>

NextCategorize ==
    \/ CallProcessTicketCategorization
    \/ CategorizationLlmReturned
    \/ CategorizationTagged
    \/ CategorizationTagAnswered

SpecCategorize ==
    InitCategorize /\ [][NextCategorize]_vars

(***************************************************************************)
(* Concurrent requests sharing the service singletons: the lazy getters    *)
(* AzureOpenAIService._get_client, TwilioService._get_client,              *)
(* TwilioService._get_validator and ZendeskService._get_headers. The       *)
(* handlers are coroutines of one event loop: a getter has no await, so    *)
(* it runs as one step, and requests interleave at the vendor calls.       *)
(***************************************************************************)

\* number of requests in progress at the same time
MaxRequests ==
    3

Requests ==
    1..MaxRequests

\* a handle attribute that is still None
NoHandle ==
    <<"None", 0>>

\* the object request r constructed
HandleBuiltBy(r) ==
    <<"built", r>>

\* what a request does with a singleton, and the handle it needs for it
ConcurrentOperations ==
    {"call_llm", "send_whatsapp_response", "validate_webhook_signature", "update_ticket"}

HandleOf(operation) ==
    CASE operation = "call_llm" -> "azure_client"
      [] operation = "send_whatsapp_response" -> "twilio_client"
      [] operation = "validate_webhook_signature" -> "twilio_validator"
      [] operation = "update_ticket" -> "zendesk_headers"

\* AzureOpenAIService._get_client: built when None; a failed construction
\* raises ValueError and leaves the attribute None
AzureGetClient(current, constructed, r) ==
    IF current # NoHandle THEN [raises |-> "none", handle |-> current, returned |-> current]
    ELSE IF constructed
    THEN [raises |-> "none", handle |-> HandleBuiltBy(r), returned |-> HandleBuiltBy(r)]
    ELSE [raises |-> "ValueError", handle |-> current, returned |-> NoHandle]

\* TwilioService._get_client: ValueError without account SID and token,
\* else built when None
TwilioGetClient(current, constructed, r) ==
    IF ~settings.twilio THEN [raises |-> "ValueError", handle |-> current, returned |-> NoHandle]
    ELSE IF current # NoHandle THEN [raises |-> "none", handle |-> current, returned |-> current]
    ELSE [raises |-> "none", handle |-> HandleBuiltBy(r), returned |-> HandleBuiltBy(r)]

\* TwilioService._get_validator: None without a webhook secret, else built
\* when None
TwilioGetValidator(current, constructed, r) ==
    IF ~settings.webhook_secret THEN [raises |-> "none", handle |-> current, returned |-> NoHandle]
    ELSE IF current # NoHandle THEN [raises |-> "none", handle |-> current, returned |-> current]
    ELSE [raises |-> "none", handle |-> HandleBuiltBy(r), returned |-> HandleBuiltBy(r)]

\* variant: the headers are built on every call
ZendeskGetHeaders_Rebuild(current, constructed, r) ==
    IF ~ZendeskConfigured THEN [raises |-> "ValueError", handle |-> current, returned |-> NoHandle]
    ELSE [raises |-> "none", handle |-> HandleBuiltBy(r), returned |-> HandleBuiltBy(r)]

\* ZendeskService._get_headers: ValueError when the configuration is
\* incomplete, else built when None
ZendeskGetHeaders(current, constructed, r) ==
    IF ~ZendeskConfigured THEN [raises |-> "ValueError", handle |-> current, returned |-> NoHandle]
    ELSE IF current # NoHandle THEN [raises |-> "none", handle |-> current, returned |-> current]
    ELSE [raises |-> "none", handle |-> HandleBuiltBy(r), returned |-> HandleBuiltBy(r)]

\* the getter an operation calls before its vendor request
LazyGet(operation, constructed, r) ==
    CASE operation = "call_llm" -> AzureGetClient(handles.azure_client, constructed, r)
      [] operation = "send_whatsapp_response" -> TwilioGetClient(handles.twilio_client, constructed, r)
      [] operation = "validate_webhook_signature" ->
             TwilioGetValidator(handles.twilio_validator, constructed, r)
      [] operation = "update_ticket" -> ZendeskGetHeaders(handles.zendesk_headers, constructed, r)

InitConcurrent ==
    /\ settings \in { st \in AllSettings : st.zendesk_domain /\ st.zendesk_email /\ ~st.content_sid }
    /\ handles = [azure_client |-> NoHandle, twilio_client |-> NoHandle,
                  twilio_validator |-> NoHandle, zendesk_headers |-> NoHandle]
    /\ handler = [r \in Requests |-> "none"]
    /\ pc = [r \in Requests |-> "idle"]
    /\ body = NoBody
    /\ form = NoForm
    /\ loc = [r \in Requests |-> [used |-> NoHandle, built |-> FALSE]]
    /\ calls = <<>>
    /\ inflight = {}
    /\ replies = <<>>
    /\ response = NoResponse
    /\ escaped = "none"

\* request r arrives and is routed to an operation of a singleton
RequestArrives(r) ==
    /\ pc[r] = "idle"
    /\ \E operation \in ConcurrentOperations : handler' = [handler EXCEPT ![r] = operation]
    /\ pc' = [pc EXCEPT ![r] = "arrived"]
    /\ UNCHANGED <<settings, handles, body, form, loc, calls, inflight, replies, response, escaped>>

\* request r runs up to its vendor call: the getter is called, and with a
\* handle the vendor request is made; without one the operation returns
RequestGetsHandle(r) ==
    /\ pc[r] = "arrived"
    /\ \E constructed \in BOOLEAN :
         LET got  == LazyGet(handler[r], constructed, r)
             name == HandleOf(handler[r])
         IN  /\ handles' = [handles EXCEPT ![name] = got.handle]
             /\ loc' = [loc EXCEPT ![r] = [used |-> got.returned,
                                           built |-> got.handle # handles[name]]]
             /\ IF got.returned # NoHandle
                THEN /\ pc' = [pc EXCEPT ![r] = "awaiting"]
                     /\ inflight' = inflight \cup {r}
                ELSE /\ pc' = [pc EXCEPT ![r] = "done"]
                     /\ inflight' = inflight
    /\ UNCHANGED <<settings, handler, body, form, calls, replies, response, escaped>>

\* the vendor call of request r returned or raised
RequestAnswered(r) ==
    /\ pc[r] = "awaiting"
    /\ pc' = [pc EXCEPT ![r] = "done"]
    /\ inflight' = inflight \ {r}
    /\ UNCHANGED <<settings, handles, handler, body, form, loc, calls, replies, response, escaped>>

NextConcurrent ==
    \E r \in Requests :
        \/ RequestArrives(r)
        \/ RequestGetsHandle(r)
        \/ RequestAnswered(r)

SpecConcurrent ==
    InitConcurrent /\ [][NextConcurrent]_vars

(***************************************************************************)
(* Properties                                                              *)
(***************************************************************************)

\* positions in `calls` of the requests to `api` with method `method`
CallsTo(api, method) ==
    { i \in DOMAIN calls : calls[i].api = api /\ calls[i].method = method }

\* the delivery is a status-change event that is a JSON object and whose
\* event.current and detail.status are not both exactly "SOLVED"
NotSolvedDelivery ==
    /\ handler = "status"
    /\ body.kind = "json_object"
    /\ ~(body.event.current = "SOLVED" /\ body.detail.status = "SOLVED")

\* C1 (as stated): for every JSON-object body whose event.current and
\* detail.status are not both "SOLVED", the status handler makes no outbound
\* call and answers with the success envelope reporting "not SOLVED".
C1_NotSolvedAlwaysSuccess ==
    NotSolvedDelivery =>
        /\ calls = <<>>
        /\ pc = "done" => response = SuccessEnvelope("Ticket status changed but not to SOLVED")

\* C1 (amended): for every such body the status handler makes no outbound
\* call; when `event` and `detail` are objects or missing it answers with the
\* success envelope reporting "not SOLVED", and when either is present but
\* not an object it answers with the catch-all error envelope.
C1_NotSolvedNoOutboundCall ==
    NotSolvedDelivery =>
        /\ calls = <<>>
        /\ inflight = {}
        /\ pc = "done" =>
             IF body.event.t = "nondict" \/ body.detail.t = "nondict"
             THEN response.type = "json" /\ response.status = "error"
             ELSE response = SuccessEnvelope("Ticket status changed but not to SOLVED")

\* C1 witness: a delivery with detail.status SOLVED but event.current OPEN
\* has been acknowledged as not SOLVED.
C1_Witness ==
    /\ handler = "status" /\ pc = "done"
    /\ body.kind = "json_object"
    /\ body.event.current = "OPEN" /\ body.detail.status = "SOLVED" /\ body.detail.id = "42"
    /\ ZendeskConfigured
    /\ response.status = "success"

\* C2 (as stated): when event.current and detail.status are both "SOLVED"
\* and a ticket id is present, the status handler has, by the time it
\* answers, fetched the comments, then called the LLM analysis, then posted
\* the parsed analysis to the ticket, in that order.
C2_SolvedRunsAnalysisChain ==
    ( /\ handler = "status" /\ pc = "done"
      /\ body.kind = "json_object"
      /\ body.event.current = "SOLVED" /\ body.detail.status = "SOLVED"
      /\ body.detail.id = "42"
      /\ loc.summary_update_result.status = "success" )
    => \E i \in CallsTo("zendesk", "GET"), j \in CallsTo("azure_openai", "POST"),
          k \in CallsTo("zendesk", "PUT") : i < j /\ j < k

\* C3: ticket_created_webhook answers with status "success" whenever the
\* classification result or the Zendesk update result is an error result.
C3_CreatedSuccessDespiteStepErrors ==
    ( /\ handler = "created" /\ pc = "done"
      /\ \/ loc.huggingface_response.status = "error"
         \/ loc.zendesk_update_result.status = "error" )
    => response.type = "json" /\ response.status = "success"

\* C3 witness: the webhook answered after a classification error that also
\* made the tag update return an error result.
C3_Witness ==
    /\ handler = "created" /\ pc = "done"
    /\ loc.huggingface_response.status = "error"
    /\ loc.zendesk_update_result.status = "error"
    /\ response.status = "success"

\* C4: a delivery issues at most one Zendesk ticket-update (PUT) request,
\* whatever the vendor calls answered; a failed update is not retried.
C4_AtMostOnePut ==
    Cardinality(CallsTo("zendesk", "PUT")) <= 1

\* C4 witness: a ticket-created delivery ended after its one PUT was
\* answered with an HTTP error.
C4_Witness ==
    /\ handler = "created" /\ pc = "done"
    /\ Cardinality(CallsTo("zendesk", "PUT")) = 1
    /\ replies[Len(replies)] = [api |-> "zendesk", result |-> [kind |-> "http_error"]]

\* C5: in a ticket-created delivery the Zendesk write is issued only after
\* the classification call has returned and only with a non-empty ticket
\* id, and the two calls are never in flight together.
C5_WriteAfterClassification ==
    handler = "created" =>
        /\ Cardinality(inflight) <= 1
        /\ \A k \in CallsTo("zendesk", "PUT") :
             /\ \E i \in CallsTo("huggingface", "POST") : i < k
             /\ \E r \in DOMAIN replies : replies[r].api = "huggingface"
             /\ "huggingface" \notin inflight
             /\ loc.ticket_id # ""

\* C5 witness: the Zendesk write is in flight after the classification
\* answer arrived.
C5_Witness ==
    /\ handler = "created" /\ pc = "await_zendesk_put"
    /\ inflight = {"zendesk"}
    /\ Len(replies) = 1 /\ replies[1].api = "huggingface"

\* the delivery is a ticket-created event, a JSON object with no `detail`
\* key or with a detail that has no (or an empty) ticket id
NoTicketIdDelivery ==
    /\ handler = "created"
    /\ body.kind = "json_object"
    /\ \/ body.detail.t = "absent"
       \/ body.detail.t = "dict" /\ body.detail.id \in {Absent, ""}

C7_HandlersAlwaysRespond ==
    handler \in {"created", "status", "whatsapp"} =>
        /\ escaped = "none"
        /\ pc # "done" => response = NoResponse
        /\ pc = "done" =>
             \/ response.type = "json" /\ response.status \in {"success", "error"}
             \/ response.type = "twiml"

\* C7 witness: an exception raised while parsing was turned into the error
\* envelope.
C7_Witness ==
    /\ handler = "created" /\ pc = "done"
    /\ body.kind = "json_object" /\ body.detail.t = "nondict"
    /\ response = ErrorEnvelope("AttributeError")

\* C8 (as stated): a body that is not valid JSON is treated as text and
\* the webhook endpoints never answer it with an error envelope.
C8_NonJsonBodyNeverFails ==
    ( /\ handler \in {"created", "status"} /\ pc = "done"
      /\ body.kind \in {"invalid_utf8", "text"} )
    => loc.data_type = "TEXT" /\ response.status # "error"

\* the content validator rejects the message body of this delivery
ContentRejected ==
    handler = "whatsapp" /\ ~validate_whatsapp_content(form.Body).is_valid

TicketCreatedAs(n) ==
    /\ handler = "whatsapp"
    /\ \E r \in DOMAIN replies :
         replies[r] = [api |-> "zendesk", result |-> [kind |-> "created", ticket_id |-> n]]

C11_AlwaysTwimlOneSend ==
    handler = "whatsapp" =>
        /\ Cardinality(CallsTo("twilio", "POST")) <= 1
        /\ pc = "done" =>
             /\ response = EmptyTwiml
             /\ loc.whatsapp_response.status \in {"success", "error"}
             /\ Cardinality(CallsTo("twilio", "POST")) = IF settings.twilio THEN 1 ELSE 0

\* C11 witness: the ticket creation failed, the apology could not be sent
\* either, and the handler answered.
C11_Witness ==
    /\ handler = "whatsapp" /\ pc = "done"
    /\ loc.ticket_result.status = "error"
    /\ Cardinality(CallsTo("twilio", "POST")) = 1
    /\ loc.whatsapp_response.status = "error"
    /\ response = EmptyTwiml

\* what a /twilio/whatsapp delivery shows of a handler state: everything but
\* the stored signature verdict
Observable(s) ==
    [s EXCEPT !.loc = [s.loc EXCEPT !.validation_result = FALSE]]

\* the form fields with another signature header
Resigned ==
    { [form EXCEPT !.signature = present, !.signature_accepted = accepted] :
        present \in BOOLEAN, accepted \in BOOLEAN }

\* the locals with another stored signature verdict
Reverdicted ==
    { [loc EXCEPT !.validation_result = v] : v \in BOOLEAN }

\* C12: the outcome of the signature validation does not influence
\* processing. In every reachable state of a /twilio/whatsapp delivery, each
\* step of the handler leads to the same ticket-creation call, the same
\* WhatsApp reply and the same response whatever the signature verdict is,
\* whatever verdict was stored and whether or not a signature header came
\* with the request.
C12_SignatureHasNoInfluence ==
    /\ (handler = "whatsapp" /\ pc = "received") =>
         LET same == Observable(WhatsappReceived(form, loc, FALSE, calls))
         IN  \A frm \in Resigned, v \in BOOLEAN :
                 Observable(WhatsappReceived(frm, loc, v, calls)) = same
    /\ (handler = "whatsapp" /\ pc = "await_create_ticket") =>
         \A o \in CreateOutcomes :
             LET same == Observable(WhatsappCreated(form, loc, o, calls))
             IN  \A frm \in Resigned, l \in Reverdicted :
                     Observable(WhatsappCreated(frm, l, o, calls)) = same
    /\ (handler = "whatsapp" /\ pc = "await_twilio") =>
         \A o \in TwilioOutcomes :
             LET same == Observable(WhatsappAnswered(loc, o, calls))
             IN  \A l \in Reverdicted : Observable(WhatsappAnswered(l, o, calls)) = same

\* C12 witness: with a webhook secret configured, a delivery whose signature
\* the validator would reject was processed to the end and created a ticket.
C12_Witness ==
    /\ handler = "whatsapp" /\ pc = "done"
    /\ settings.webhook_secret
    /\ form.signature /\ ~form.signature_accepted
    /\ ~loc.validation_result
    /\ calls # <<>> /\ calls[1].api = "zendesk"
    /\ loc.ticket_result.status = "success"
    /\ response = EmptyTwiml

\* C13 (as stated): for a delivery that carries a signature header which
\* the configured validator accepts, validate_twilio_request returns True.
C13_AcceptedSignatureValidates ==
    ( /\ handler = "whatsapp" /\ pc # "received"
      /\ settings.webhook_secret
      /\ form.signature /\ form.signature_accepted )
    => loc.validation_result = TRUE

\* C14 (as stated): every body under 10 characters, the empty and the
\* whitespace-only body included, is rejected with the "provide more
\* details" guidance.
C14_ShortBodyGetsMoreDetails ==
    (handler = "text" /\ pc = "validated" /\ Len(form.Body) < 10) =>
        /\ ~loc.is_valid
        /\ loc.message = MSG_MORE_DETAILS

\* C14 (amended): every body whose stripped length is under 10 (so every
\* body under 10 characters) is rejected; the message is the "provide more
\* details" guidance when the body holds a non-whitespace character and
\* "Message is empty" when it is empty or whitespace-only.
C14_ShortBodyRejected ==
    (handler = "text" /\ pc = "validated" /\ Len(Strip(form.Body)) < 10) =>
        /\ ~loc.is_valid
        /\ loc.message = IF Strip(form.Body) = <<>> THEN MSG_EMPTY ELSE MSG_MORE_DETAILS

\* C14 witness: a nine-character body that holds an issue keyword and no
\* greeting was rejected with the "provide more details" guidance.
C14_Witness ==
    /\ handler = "text" /\ pc = "validated"
    /\ form.Body = <<"x","x","x"," ","e","r","r","o","r">>
    /\ ~loc.is_valid
    /\ loc.message = MSG_MORE_DETAILS

\* the one-word greetings and acknowledgements the specification lists
ListedGreetingWords ==
    { <<"h","i">>,
      <<"h","e","l","l","o">>,
      <<"h","e","y">>,
      <<"t","h","a","n","k","s">>,
      <<"o","k">>,
      <<"o","k","a","y">>,
      <<"y","e","s">>,
      <<"n","o">>,
      <<"h","e","l","p">>,
      <<"s","u","p","p","o","r","t">> }

\* the two-word greetings the specification lists, as pairs of words
ListedGreetingPhrases ==
    { <<<<"g","o","o","d">>, <<"m","o","r","n","i","n","g">>>>,
      <<<<"g","o","o","d">>, <<"a","f","t","e","r","n","o","o","n">>>>,
      <<<<"g","o","o","d">>, <<"e","v","e","n","i","n","g">>>>,
      <<<<"t","h","a","n","k">>, <<"y","o","u">>>> }

\* text[from..] starts with `word`
HasAt(text, from, word) ==
    /\ from + Len(word) - 1 <= Len(text)
    /\ \A i \in 1..Len(word) : text[from + i - 1] = word[i]

\* the lower-cased stripped text holds one of the fixed issue keywords
HoldsIssueKeyword(text) ==
    LET lowered == Lower(text)
    IN  \E keyword \in issue_keywords, from \in 1..Len(text) : HasAt(lowered, from, keyword)

\* a word ends at position n of text: the next character, if any, is no
\* letter, digit or underscore
WordEndsAt(text, n) ==
    n < Len(text) => ~IsWordChar(text[n + 1])

\* text starts with `word` and a word boundary follows
StartsWithWord(text, word) ==
    HasAt(text, 1, word) /\ WordEndsAt(text, Len(word))

\* number of whitespace characters of text from position `from` on, up to
\* the first other character
RECURSIVE SpacesFrom(_, _)
SpacesFrom(text, from) ==
    IF from <= Len(text) /\ IsSpace(text[from]) THEN 1 + SpacesFrom(text, from + 1) ELSE 0

\* text starts with the two words of `phrase` one space apart, and a word
\* boundary follows
StartsWithPhraseSpaced(text, phrase) ==
    StartsWithWord(text, phrase[1] \o <<" ">> \o phrase[2])

\* text starts with the two words of `phrase`, separated by any run of
\* whitespace (none included), and a word boundary follows
StartsWithPhrase(text, phrase) ==
    /\ HasAt(text, 1, phrase[1])
    /\ LET second == Len(phrase[1]) + SpacesFrom(text, Len(phrase[1]) + 1) + 1
       IN  /\ HasAt(text, second, phrase[2])
           /\ WordEndsAt(text, second + Len(phrase[2]) - 1)

\* C15 (as stated): a body is accepted if and only if it is not blank, its
\* stripped length is at least 10, its lower-cased stripped text does not
\* start with one of the listed greetings (hi, hello, hey, good
\* morning/afternoon/evening, thanks, thank you, ok, okay, yes, no, help,
\* support) followed by a word boundary, and it holds an issue keyword or
\* has stripped length at least 20.
C15_AcceptsIffListed ==
    (handler = "text" /\ pc = "validated") =>
        LET text == Strip(form.Body)
        IN  loc.is_valid <=>
              /\ text # <<>>
              /\ Len(text) >= 10
              /\ ~\E g \in ListedGreetingWords : StartsWithWord(Lower(text), g)
              /\ ~\E g \in ListedGreetingPhrases : StartsWithPhraseSpaced(Lower(text), g)
              /\ HoldsIssueKeyword(text) \/ Len(text) >= 20

\* C15 (amended): as stated, except that the greeting test is wider than
\* the list: "thank" alone counts as a greeting, and the two words of "good
\* morning/afternoon/evening" and of "thank you" may be separated by any
\* run of whitespace, none included ("goodevening", "thankyou").
C15_AcceptsIff ==
    (handler = "text" /\ pc = "validated") =>
        LET text == Strip(form.Body)
        IN  loc.is_valid <=>
              /\ text # <<>>
              /\ Len(text) >= 10
              /\ ~\E g \in ListedGreetingWords \cup {<<"t","h","a","n","k">>} :
                     StartsWithWord(Lower(text), g)
              /\ ~\E g \in ListedGreetingPhrases : StartsWithPhrase(Lower(text), g)
              /\ HoldsIssueKeyword(text) \/ Len(text) >= 20

\* C15 witness: a body of fewer than 20 characters that holds an issue
\* keyword and starts with a word that only begins like a greeting was
\* accepted.
C15_Witness ==
    /\ handler = "text" /\ pc = "validated"
    /\ form.Body = <<"h","i","s","t","o","r","y",",","x","x"," ","e","r","r","o","r">>
    /\ loc.is_valid

\* C16 (as stated): a "+"-prefixed number passes through unchanged behind
\* the "whatsapp:" prefix, a 10-digit number gets "+1" and an 11-digit
\* number with leading 1 gets "+".
C16_PlusNumberPassesThrough ==
    \A i \in CallsTo("twilio", "POST") :
        LET number == clean_number(form.From)
            digits == DigitsOnly(number)
        IN  /\ StartsWith(number, <<"+">>) => calls[i].to = STR_whatsapp_prefix \o number
            /\ (number = digits /\ Len(digits) = 10) =>
                   calls[i].to = STR_whatsapp_prefix \o <<"+", "1">> \o digits
            /\ (number = digits /\ Len(digits) = 11 /\ Head(digits) = "1") =>
                   calls[i].to = STR_whatsapp_prefix \o <<"+">> \o digits

\* C17 (as stated): in a template message, variable "1" holds the reply cut
\* to at most 50 characters and variable "2" holds the ticket id as a
\* string, or "N/A" when there is no ticket id.
C17_TemplateVariableAtMost50 ==
    \A i \in CallsTo("twilio", "POST") :
        calls[i].mode = "template" =>
            /\ Len(calls[i].content_variables.v1) <= 50
            /\ calls[i].content_variables.v2 =
                 IF loc.ticket_result.status = "success"
                 THEN IntToStr(loc.ticket_result.ticket_id)
                 ELSE STR_NA

\* digits of a decimal numeral read as a number
RECURSIVE NumeralValue(_)
NumeralValue(numeral) ==
    IF numeral = <<>> THEN 0
    ELSE NumeralValue(SubSeq(numeral, 1, Len(numeral) - 1)) * 10
         + (CHOOSE d \in 0..9 : Digits[d + 1] = numeral[Len(numeral)])

\* text[from..to] is a percentage with two decimals, "87.35%", that is the
\* number of millionths `micro` rounded to hundredths of a percent
IsPercentOf(text, from, to, micro) ==
    /\ to - from >= 4
    /\ text[to] = "%"
    /\ text[to - 3] = "."
    /\ \A i \in from..(to - 1) : i # to - 3 => IsDigit(text[i])
    /\ (from > 1 => ~IsDigit(text[from - 1]))
    /\ LET hundredths == NumeralValue(SubSeq(text, from, to - 4)) * 100
                         + NumeralValue(SubSeq(text, to - 2, to - 1))
       IN  /\ hundredths * 100 - micro <= 50
           /\ micro - hundredths * 100 <= 50

\* C18: for a categorization response with status "success", category c
\* and a numeric confidence, the body of the update request holds exactly
\* one tag, "auto_categorized_" followed by c, and a comment that is not
\* public and whose body names c in quotes and gives the confidence as a
\* percentage with two decimals.
C18_TagUpdateBody ==
    handler = "update_ticket_tags" =>
        \A i \in DOMAIN calls :
            LET response_in == loc.argument
                data == calls[i].data
            IN  /\ response_in.status = "success"
                /\ response_in.confidence.kind = "number"
                /\ calls[i].method = "PUT"
                /\ Len(data.tags) = 1
                /\ data.tags[1] = STR_auto_categorized \o response_in.category
                /\ data.comment.public = FALSE
                /\ Contains(data.comment.body, <<"'">> \o response_in.category \o <<"'">>)
                /\ \E from \in DOMAIN data.comment.body, to \in DOMAIN data.comment.body :
                       IsPercentOf(data.comment.body, from, to, response_in.confidence.micro)

\* C18 witness: category "engineering" with confidence 0.87 was sent as tag
\* "auto_categorized_engineering" with "87.00%" in the comment.
C18_Witness ==
    /\ handler = "update_ticket_tags" /\ pc = "done"
    /\ loc.argument.status = "success"
    /\ loc.argument.confidence = [kind |-> "number", micro |-> 870000]
    /\ Len(calls) = 1
    /\ calls[1].data.tags = << <<"a","u","t","o","_","c","a","t","e","g","o","r","i","z","e","d","_","e","n","g","i","n","e","e","r","i","n","g">> >>
    /\ Contains(calls[1].data.comment.body, <<"8","7",".","0","0","%">>)
    /\ loc.result.status = "success"

\* one of the Zendesk domain, e-mail and API key is missing
MissingZendeskSetting ==
    \E name \in {"zendesk_domain", "zendesk_email", "zendesk_api_key"} : ~settings[name]

\* C19: when the Zendesk domain, e-mail or API key is missing, each of
\* update_ticket, update_ticket_tags, update_ticket_with_analysis and
\* extract_ticket_comments issues no HTTP request and returns a result with
\* status "error".
C19_NoRequestWithoutConfiguration ==
    (handler \in ZendeskOperations /\ MissingZendeskSetting) =>
        /\ calls = <<>>
        /\ inflight = {}
        /\ pc \in {"called", "done"}
        /\ pc = "done" => loc.result.status = "error"

\* C19 witness: with only the API key missing, update_ticket_with_analysis
\* returned an error result without a request.
C19_Witness ==
    /\ handler = "update_ticket_with_analysis" /\ pc = "done"
    /\ settings.zendesk_domain /\ settings.zendesk_email /\ ~settings.zendesk_api_key
    /\ calls = <<>>
    /\ loc.result.status = "error"

\* the comments of the HTTP 200 answer to the comments request
RawCommentsAnswered ==
    replies[Len(replies)].result.comments

\* position in the raw list of the k-th comment whose `public` flag is true
PublicPosition(raw, k) ==
    CHOOSE i \in DOMAIN raw :
        /\ raw[i].public = TRUE
        /\ Cardinality({ j \in 1..i : raw[j].public = TRUE }) = k

\* C20: on an HTTP 200 comments response, extract_ticket_comments returns a
\* list with exactly one entry per raw comment whose `public` flag is true,
\* in the original order, each entry holding exactly plain_body,
\* created_at and author_id of its comment.
C20_PublicCommentsProjected ==
    ( /\ handler = "extract_ticket_comments" /\ pc = "done"
      /\ replies # <<>>
      /\ replies[Len(replies)].result.kind = "http_200" )
    => LET raw == RawCommentsAnswered
           items == loc.result.items
       IN  /\ loc.result.status = "list"
           /\ Len(items) = Cardinality({ i \in DOMAIN raw : raw[i].public = TRUE })
           /\ \A k \in DOMAIN items :
                /\ DOMAIN items[k] = {"plain_body", "created_at", "author_id"}
                /\ items[k].plain_body = raw[PublicPosition(raw, k)].plain_body
                /\ items[k].created_at = raw[PublicPosition(raw, k)].created_at
                /\ items[k].author_id = raw[PublicPosition(raw, k)].author_id

\* C20 witness: a raw list of one public and one non-public comment gave
\* exactly one entry, the public comment's.
C20_Witness ==
    /\ handler = "extract_ticket_comments" /\ pc = "done"
    /\ replies # <<>>
    /\ replies[Len(replies)].result.kind = "http_200"
    /\ Len(RawCommentsAnswered) = 2
    /\ RawCommentsAnswered[1].public /\ ~RawCommentsAnswered[2].public
    /\ RawCommentsAnswered[1].plain_body = "c1" /\ RawCommentsAnswered[2].plain_body = "c2"
    /\ Len(loc.result.items) = 1
    /\ loc.result.items[1].plain_body = "c1"

\* process_ticket_analysis has returned or raised, and its comment fetch
\* brought back no public comment: no request was made (configuration
\* incomplete), the GET was not answered with 200, or every raw comment of
\* the 200 answer is private
NoPublicCommentFetched ==
    /\ handler = "analysis" /\ pc = "done"
    /\ \/ CallsTo("zendesk", "GET") = {}
       \/ /\ replies # <<>>
          /\ \/ replies[1].result.kind # "http_200"
             \/ \A i \in DOMAIN replies[1].result.comments :
                   ~replies[1].result.comments[i].public

\* C21: in process_ticket_analysis, when the list of public comments is
\* empty or the comment fetch returned an error result, the LLM is not
\* called, the ticket is not updated, and the function returns the pair
\* (None, None) without raising.
C21_NoCommentsNoAnalysis ==
    NoPublicCommentFetched =>
        /\ CallsTo("azure_openai", "POST") = {}
        /\ CallsTo("zendesk", "PUT") = {}
        /\ loc.llm_response = NoResult
        /\ loc.analysis_update_result = NoResult
        /\ response = TupleReturned
        /\ escaped = "none"

\* C21 witness: the comments GET was answered with 200 and two private
\* comments, and process_ticket_analysis has returned.
C21_Witness ==
    /\ handler = "analysis" /\ pc = "done"
    /\ Len(replies) = 1
    /\ replies[1].result.kind = "http_200"
    /\ Len(replies[1].result.comments) = 2
    /\ \A i \in 1..2 : ~replies[1].result.comments[i].public
    /\ response = TupleReturned

\* C22 (as stated): in process_ticket_analysis, whenever the generated
\* content of the completion cannot be parsed as JSON (text that is no
\* JSON, or null content), no Zendesk update is issued,
\* analysis_update_result is None and the function returns without raising.
C22_UnparseableContentIsNoAnalysis ==
    ( /\ handler = "analysis" /\ pc = "done"
      /\ \E i \in DOMAIN replies :
            /\ replies[i].api = "azure_openai"
            /\ replies[i].result.kind = "completion"
            /\ replies[i].result.content \in {"not_json", "None"} )
    => /\ CallsTo("zendesk", "PUT") = {}
       /\ loc.analysis_update_result = NoResult
       /\ response = TupleReturned
       /\ escaped = "none"

\* the sender's phone number: the From field without its "whatsapp:" prefix
SenderPhone ==
    IF Len(form.From) >= 9 /\ SubSeq(form.From, 1, 9) = <<"w","h","a","t","s","a","p","p",":">>
    THEN SubSeq(form.From, 10, Len(form.From))
    ELSE form.From

\* `text` is `raw` without its leading and trailing whitespace
IsStripped(text, raw) ==
    /\ text # <<>>
    /\ ~IsSpace(text[1]) /\ ~IsSpace(text[Len(text)])
    /\ \E lead \in 0..(Len(raw) - Len(text)) :
          /\ \A i \in 1..lead : IsSpace(raw[i])
          /\ \A i \in 1..Len(text) : raw[lead + i] = text[i]
          /\ \A i \in (lead + Len(text) + 1)..Len(raw) : IsSpace(raw[i])

\* C25: every ticket draft create_ticket_from_whatsapp submits to Zendesk
\* carries exactly the tags ["whatsapp", "auto-created"], the type
\* "incident", the stripped message body as description and the requester
\* e-mail "<phone>@whatsapp.zendesk.com" built from the sender's number.
C25_DraftOfWhatsappTicket ==
    handler = "whatsapp" =>
        \A i \in CallsTo("zendesk", "POST") :
            /\ calls[i].ticket.tags = <<"whatsapp", "auto-created">>
            /\ calls[i].ticket.type = "incident"
            /\ IsStripped(calls[i].ticket.description, form.Body)
            /\ calls[i].ticket.requester.email
                 = SenderPhone \o <<"@","w","h","a","t","s","a","p","p",".","z","e","n","d","e","s","k",".","c","o","m">>

\* C25 witness: a draft was submitted for a message sent with surrounding
\* whitespace from a number given with the "whatsapp:" prefix.
C25_Witness ==
    /\ handler = "whatsapp"
    /\ CallsTo("zendesk", "POST") # {}
    /\ IsSpace(form.Body[1])
    /\ SenderPhone # form.From

\* number of whitespace characters text begins with
LeadingSpaces(text) ==
    CHOOSE n \in 0..Len(text) :
        /\ \A i \in 1..n : IsSpace(text[i])
        /\ n < Len(text) => ~IsSpace(text[n + 1])

\* number of whitespace characters text ends with
TrailingSpaces(text) ==
    CHOOSE n \in 0..Len(text) :
        /\ \A i \in 1..n : IsSpace(text[Len(text) + 1 - i])
        /\ n < Len(text) => ~IsSpace(text[Len(text) - n])

\* length of the text before the first '.' of the message
FirstSentenceEnd(message) ==
    CHOOSE k \in 0..Len(message) :
        /\ \A i \in 1..k : message[i] # "."
        /\ k < Len(message) => message[k + 1] = "."

\* C26: _generate_subject returns the stripped text before the first '.'
\* when that has at most 50 characters, its first 47 characters followed
\* by "..." when it is longer, and "WhatsApp Support Request" when it is
\* empty; the subject is never empty and never longer than 50 characters.
C26_SubjectDerivation ==
    (handler = "draft" /\ pc = "subject") =>
        LET k     == FirstSentenceEnd(form.Body)
            lead  == LeadingSpaces(SubSeq(form.Body, 1, k))
            trail == TrailingSpaces(SubSeq(form.Body, 1, k))
            n     == IF lead = k THEN 0 ELSE k - lead - trail
        IN  /\ n = 0 => loc.subject
                          = <<"W","h","a","t","s","A","p","p"," ","S","u","p","p","o","r","t"," ","R","e","q","u","e","s","t">>
            /\ (0 < n /\ n <= 50) =>
                  /\ Len(loc.subject) = n
                  /\ \A i \in 1..n : loc.subject[i] = form.Body[lead + i]
            /\ n > 50 =>
                  /\ Len(loc.subject) = 50
                  /\ \A i \in 1..47 : loc.subject[i] = form.Body[lead + i]
                  /\ \A i \in 48..50 : loc.subject[i] = "."
            /\ loc.subject # <<>>
            /\ Len(loc.subject) <= 50

\* C26 witness: a first sentence of more than 50 characters was cut to 47
\* characters and the ellipsis.
C26_Witness ==
    /\ handler = "draft" /\ pc = "subject"
    /\ FirstSentenceEnd(form.Body) > 52
    /\ FirstSentenceEnd(form.Body) < Len(form.Body)
    /\ Len(loc.subject) = 50
    /\ loc.subject[50] = "."

\* the lower-cased message holds one of the keywords
HoldsKeyword(message, keywords) ==
    LET lowered == Lower(message)
    IN  \E keyword \in keywords, from \in 1..Len(message) : HasAt(lowered, from, keyword)

C29_NoTagWithoutSuccess ==
    handler = "update_ticket_tags" =>
        /\ loc.argument.status # "success" =>
              /\ calls = <<>>
              /\ inflight = {}
              /\ pc \in {"called", "done"}
              /\ pc = "done" =>
                    /\ loc.result.status = "error"
                    /\ "categorization_response" \in DOMAIN loc.result
                    /\ loc.result.categorization_response = loc.argument
        /\ calls # <<>> => loc.argument.status = "success"

\* C29 witness: with Zendesk fully configured, update_ticket_tags was
\* handed the parse-failure result of the classifier and returned an error
\* result embedding it, without a request.
C29_Witness ==
    /\ handler = "update_ticket_tags" /\ pc = "done"
    /\ settings.zendesk_domain /\ settings.zendesk_email /\ settings.zendesk_api_key
    /\ loc.argument = [status |-> "error", message |-> "Failed to parse categorization response"]
    /\ loc.result.status = "error"
    /\ loc.result.categorization_response = loc.argument
    /\ calls = <<>>

\* positions in `replies` of the completions the categorization received
CompletionsReceived ==
    { i \in DOMAIN replies :
        replies[i].api = "azure_openai" /\ replies[i].result.kind = "completion" }

\* process_ticket_categorization has returned or raised
CategorizationEnded ==
    handler = "categorize" /\ pc \notin {"called", "await_llm"}

\* C23: categorize_ticket calls the LLM exactly once per invocation (one
\* completion request, none when the client could not be built); text
\* that is no JSON yields {status: "error", message: "Failed to parse
\* categorization response"} without a second call; a result with status
\* "error" carries no category.
C23_OneCallNoRetry ==
    handler = "categorize" =>
        /\ loc.llm_calls = (IF pc = "called" THEN 0 ELSE 1)
        /\ Cardinality(CallsTo("azure_openai", "POST"))
             = (IF pc # "called" /\ handles.azure_client = "built" THEN 1 ELSE 0)
        /\ CategorizationEnded =>
              /\ \A i \in CompletionsReceived :
                    replies[i].result.content.t = "not_json" =>
                        loc.categorization_response
                          = [status |-> "error", message |-> "Failed to parse categorization response"]
              /\ loc.categorization_response.status = "error" =>
                    "category" \notin DOMAIN loc.categorization_response

\* C23 witness: the completion was text that is no JSON, and the parse
\* error result was returned after the one request.
C23_Witness ==
    /\ CategorizationEnded
    /\ \E i \in CompletionsReceived : replies[i].result.content.t = "not_json"
    /\ Cardinality(CallsTo("azure_openai", "POST")) = 1
    /\ loc.categorization_response.status = "error"

\* C24 (as stated): in every successful classification result, and in
\* every tag written to Zendesk as auto_categorized_<category>, the
\* category is one of the twelve fixed labels, whatever the backend
\* returned.
C24_CategoryIsListedLabel ==
    handler = "categorize" =>
        /\ loc.categorization_response.status = "success" =>
              loc.categorization_response.category \in candidate_labels
        /\ \A i \in CallsTo("zendesk", "PUT") :
              \E label \in candidate_labels :
                  calls[i].data.tags = << <<"a","u","t","o","_","c","a","t","e","g","o","r","i","z","e","d","_">> \o label >>

\* C24 (amended): every completion whose content is a JSON object yields
\* a successful classification result whose category is the text the
\* object holds under "category", unchanged and unchecked (the empty text
\* when the member is missing), and no other completion yields a
\* successful result; every tag written is auto_categorized_ followed by
\* exactly that text.
C24_CategoryIsBackendsAnswer ==
    (handler = "categorize" /\ pc # "called") =>
        /\ \A i \in CompletionsReceived :
              replies[i].result.content.t = "json_object" =>
                  /\ loc.categorization_response.status = "success"
                  /\ loc.categorization_response.category
                       = (IF replies[i].result.content.has_category
                          THEN replies[i].result.content.category
                          ELSE <<>>)
        /\ loc.categorization_response.status = "success" =>
              \E i \in CompletionsReceived : replies[i].result.content.t = "json_object"
        /\ \A i \in CallsTo("zendesk", "PUT") :
              calls[i].data.tags
                = << <<"a","u","t","o","_","c","a","t","e","g","o","r","i","z","e","d","_">> \o loc.categorization_response.category >>

\* C24 witness: the model answered with the category "billing", which is
\* not among the twelve labels, and the tag auto_categorized_billing was
\* sent to Zendesk.
C24_Witness ==
    /\ handler = "categorize"
    /\ loc.categorization_response.status = "success"
    /\ loc.categorization_response.category = <<"b","i","l","l","i","n","g">>
    /\ \E i \in CallsTo("zendesk", "PUT") :
          calls[i].data.tags = << <<"a","u","t","o","_","c","a","t","e","g","o","r","i","z","e","d","_","b","i","l","l","i","n","g">> >>

\* C30: process_ticket_categorization never raises: whether the client
\* could not be built, the completion request raised, the text is no JSON,
\* the content is missing or the JSON is no object, it returns a dict
\* whose status is "success" or "error".
C30_CategorizationNeverRaises ==
    CategorizationEnded =>
        /\ escaped = "none"
        /\ response = DictReturned
        /\ loc.categorization_response.status \in {"success", "error"}

\* C30 witness: the completion was a JSON array, and an error dict was
\* returned.
C30_Witness ==
    /\ CategorizationEnded
    /\ \E i \in CompletionsReceived : replies[i].result.content.t = "json_array"
    /\ response = DictReturned
    /\ loc.categorization_response.status = "error"

\* the requests that have called the getter of handle `name`
UsersOf(name) ==
    { r \in DOMAIN pc : pc[r] \in {"awaiting", "done"} /\ HandleOf(handler[r]) = name }

\* C28: under any interleaving of concurrent requests, each lazily built
\* vendor handle (Azure OpenAI client, Twilio client, Twilio request
\* validator, Zendesk auth headers) is built at most once, is never
\* replaced or reset once set, and is the handle every later request uses.
C28_HandlesBuiltOnce ==
    \A name \in DOMAIN handles :
        LET builders == { r \in UsersOf(name) : loc[r].built }
        IN  /\ Cardinality(builders) <= 1
            /\ builders = {} <=> handles[name] = <<"None", 0>>
            /\ \A r \in builders : handles[name] = <<"built", r>>
            /\ \A r \in UsersOf(name) :
                  loc[r].used # <<"None", 0>> => loc[r].used = handles[name]

\* C28 witness: two requests are waiting for Zendesk at the same time, one
\* built the headers and the other uses the headers the first one built.
C28_Witness ==
    \E r1 \in DOMAIN pc, r2 \in DOMAIN pc :
        /\ r1 # r2
        /\ pc[r1] = "awaiting" /\ pc[r2] = "awaiting"
        /\ handler[r1] = "update_ticket" /\ handler[r2] = "update_ticket"
        /\ loc[r1].built /\ ~loc[r2].built
        /\ loc[r2].used = <<"built", r1>>

====
